---- MODULE Spec2Model ----
(***************************************************************************)
(* The COP backend of src/nizam-backend/main.py as a state machine.        *)
(* The standalone COP server of src/cop/server.py is modelled over the     *)
(* same variables, in the section of SpecSrv.                              *)
(* The fusion agent of src/agents/fuser/fuser_agent.py and the threat      *)
(* agent of src/agents/threat/threat_agent.py, two filters of lines read    *)
(* from standard input, are modelled in the sections of SpecFuser and      *)
(* SpecScore.                                                              *)
(* SpecLive and SpecLocks add weak fairness for the steps the event loop   *)
(* always gets to: the clock, the aging tick, lock grants and sends.        *)
(*                                                                         *)
(* The server is a single asyncio event loop.  A task runs without         *)
(* interruption between two awaits, so every action below is the code      *)
(* between two points where the task can be suspended: the acquisition of  *)
(* STATE_LOCK, the acquisition of the hub lock, the sends of a broadcast,  *)
(* the sleep of the aging loop.  Every such point is taken as one where    *)
(* other tasks may run, and a free lock goes to any task that asks for it  *)
(* (asyncio grants a contended lock first come first served, which is one  *)
(* of the orders allowed here).                                            *)
(*                                                                         *)
(* Time is counted in whole seconds (time.time() is a float; round(age, 3) *)
(* is then the identity).  The "ts" field of the events is left out: no    *)
(* handler reads it.  A message carries one field the program does not     *)
(* have, "commit": the number of the critical section that produced it.    *)
(* Track, threat and agent ids are strings, on which str() is the identity.*)
(***************************************************************************)
EXTENDS Integers, Sequences, FiniteSets, TLC

\* ------------------------------------------------------------------------
\* Program constants
\* ------------------------------------------------------------------------
TTL_LIVE_SEC == 5
TTL_DEAD_SEC == 15

\* ------------------------------------------------------------------------
\* Bounds of the model
\* ------------------------------------------------------------------------
\* EVENTS_TAIL_MAX is 1000 in the program; the model runs it at TailBound.
TailBound == 2
EVENTS_TAIL_MAX == TailBound
\* Number of ingest and reset requests served in one behaviour.
MaxOps == 2
\* Number of pause and resume requests served in one behaviour.
MaxToggles == 2
\* Number of ingest requests of a burst sent during a pause.
MaxBuffered == 3

\* The value None of pause_started_ts.
None == -1

\* The instants at which the clock is read, after the start at 0.
Instants == {5, 10, 20}

Reqs == {"r1"}
Clients == {"c1", "c2"}
\* The websockets that connect while the whole server runs.
Joiners == {"c1"}
AGING == "aging"
Tasks == Reqs \cup {AGING}
FREE == "free"

\* ------------------------------------------------------------------------
\* Python dicts: functions whose domain is the set of keys
\* ------------------------------------------------------------------------
EmptyDict == [k \in {} |-> 0]

\* d.get(k, default)
Get(d, k, default) == IF k \in DOMAIN d THEN d[k] ELSE default

\* a.update(b) on a copy of a
Update(a, b) ==
  [k \in (DOMAIN a) \cup (DOMAIN b) |-> IF k \in DOMAIN b THEN b[k] ELSE a[k]]

\* d[k] = v
Put(d, k, v) == [x \in (DOMAIN d) \cup {k} |-> IF x = k THEN v ELSE d[x]]

\* The items of a sequence, and the sequence without the items in S.
Range(s) == {s[i] : i \in 1..Len(s)}
Without(s, S) == SelectSeq(s, LAMBDA x : x \notin S)

\* The last n items of a sequence: del s[: len(s) - n]
LastN(s, n) == IF Len(s) > n THEN SubSeq(s, Len(s) - n + 1, Len(s)) ELSE s

\* s is the end of t
IsSuffix(s, t) == Len(s) <= Len(t) /\ LastN(t, Len(s)) = s

\* ------------------------------------------------------------------------
\* The requests the model sends
\* ------------------------------------------------------------------------
TrackPayloads ==
  {[id |-> "t1", lat |-> 1],
   [id |-> "t1", cls |-> "uav", status |-> "DEAD", age_sec |-> 99],
   [lat |-> 1]}

ThreatPayloads == {[id |-> "t1", level |-> "HIGH"]}

\* a track with no last_update_ts, a track that is DEAD and old, a track that
\* is LIVE and old
StaleNoTs == [id |-> "t1", status |-> "STALE"]
DeadOld == [id |-> "t1", status |-> "DEAD", last_update_ts |-> 0]
LiveOld == [id |-> "t2", status |-> "LIVE", last_update_ts |-> 0]

SnapshotPayloads ==
  {[agents |-> [a1 |-> [state |-> "up"]], tracks |-> [t1 |-> StaleNoTs]],
   [tracks |-> [t1 |-> DeadOld, t2 |-> LiveOld]],
   [paused |-> TRUE]}

OtherPayloads == {[msg |-> "hello"]}

IngestEvents ==
  {[event_type |-> "cop.track", payload |-> p] : p \in TrackPayloads}
  \cup {[event_type |-> "cop.threat", payload |-> p] : p \in ThreatPayloads}
  \cup {[event_type |-> "cop.snapshot", payload |-> p] : p \in SnapshotPayloads}
  \cup {[event_type |-> "cop.alert", payload |-> p] : p \in OtherPayloads}

\* ------------------------------------------------------------------------
\* State
\* ------------------------------------------------------------------------
VARIABLES
  agents, tracks, track_keys, threats, events_tail,   \* STATE
  paused, pause_started_ts, pause_accum_sec, buffer,  \* STATE, pause/resume
  state_lock, hub_lock,                               \* owner of each lock
  clients,                                            \* HUB.clients
  now,                                                \* time.time()
  pc, op, todo, buffered,                             \* the tasks
  cpc, rx, broken,                                    \* the websockets
  sent, applied, commits, ops, toggles,               \* history
  fuser_tracks, bearing_gate_deg, fuser_in, fuser_out, fuser_exc, \* fusion agent
  threat_in, threat_out, threat_exc,                  \* the threat agent
  feed                                                \* the sensor stream

store == <<agents, tracks, track_keys, threats>>
pausev == <<paused, pause_started_ts, pause_accum_sec, buffer>>
locks == <<state_lock, hub_lock>>
taskv == <<pc, op, todo, buffered>>
wsv == <<cpc, rx, broken>>
hist == <<sent, applied, commits, ops, toggles>>
copv == <<store, events_tail, pausev, locks, clients, now, taskv, wsv, hist>>
fuserv == <<fuser_tracks, bearing_gate_deg, fuser_in, fuser_out, fuser_exc>>
threatv == <<threat_in, threat_out, threat_exc>>
agentv == <<fuserv, threatv, feed>>
vars == <<copv, agentv>>

\* ------------------------------------------------------------------------
\* Helpers of main.py
\* ------------------------------------------------------------------------
Msg(et, payload, c) == [event_type |-> et, payload |-> payload, commit |-> c]

\* _push_tail: append, then keep the last EVENTS_TAIL_MAX events
push_tail(tail, evt) == LastN(Append(tail, evt), EVENTS_TAIL_MAX)

\* _build_snapshot_payload, of the given maps
build_snapshot_payload(ag, tr, th, pa) ==
  [agents |-> ag, tracks |-> tr, threats |-> th, paused |-> pa]

\* the cop.snapshot event of _broadcast_snapshot and of ws_endpoint
snapshot_msg(ag, tr, th, pa, c) ==
  Msg("cop.snapshot", build_snapshot_payload(ag, tr, th, pa), c)

\* the cop.control event of set_pause
control_msg(p, c) == Msg("cop.control", [paused |-> p], c)

\* A merge in which the payload's own status and age_sec survive.
normalize_payload_wins(payload) ==
  LET tid == payload.id
      existing == Get(tracks, tid, EmptyDict)
      forced == Put(Put(Put(Put(existing, "id", tid), "last_update_ts", now),
                        "age_sec", 0), "status", "LIVE")
  IN  Update(forced, payload)

\* _normalize_track_payload: the record stored for a payload that has an id
normalize_track_payload(payload) ==
  LET tid == payload.id
      existing == Get(tracks, tid, EmptyDict)
      track == Update(existing, payload)
  IN  Put(Put(Put(Put(track, "id", tid), "last_update_ts", now), "age_sec", 0),
          "status", "LIVE")

\* Thresholds that are passed only when exceeded.
compute_status_strict(age_sec) ==
  IF age_sec > TTL_DEAD_SEC THEN "DEAD"
  ELSE IF age_sec > TTL_LIVE_SEC THEN "STALE"
  ELSE "LIVE"

\* _compute_status
compute_status(age_sec) ==
  IF age_sec >= TTL_DEAD_SEC THEN "DEAD"
  ELSE IF age_sec >= TTL_LIVE_SEC THEN "STALE"
  ELSE "LIVE"

\* The keys of a tracks map of a payload in iteration order: the payloads of
\* the model list t1 before t2.
KeySeq(d) == SelectSeq(<<"t1", "t2">>, LAMBDA k : k \in DOMAIN d)

\* ------------------------------------------------------------------------
\* _apply_event_locked: what it raises, the state it leaves, the event it emits
\* ------------------------------------------------------------------------
apply_raises(evt) ==
  /\ evt.event_type \in {"cop.track", "cop.threat"}
  /\ "id" \notin DOMAIN evt.payload

apply_agents(evt) ==
  IF evt.event_type = "cop.snapshot" /\ "agents" \in DOMAIN evt.payload
  THEN evt.payload.agents ELSE agents

\* A snapshot ingest that merges the payload's tracks into the stored ones.
apply_tracks_merges(evt) ==
  CASE evt.event_type = "cop.snapshot" ->
         IF "tracks" \in DOMAIN evt.payload THEN Update(tracks, evt.payload.tracks)
         ELSE tracks
    [] evt.event_type = "cop.track" ->
         Put(tracks, evt.payload.id, normalize_track_payload(evt.payload))
    [] OTHER -> tracks

apply_tracks(evt) ==
  CASE evt.event_type = "cop.snapshot" ->
         IF "tracks" \in DOMAIN evt.payload THEN evt.payload.tracks ELSE tracks
    [] evt.event_type = "cop.track" ->
         Put(tracks, evt.payload.id, normalize_track_payload(evt.payload))
    [] OTHER -> tracks

\* An ingest that records the id of every cop.track it applies.
apply_track_keys_appends(evt) ==
  CASE evt.event_type = "cop.snapshot" ->
         IF "tracks" \in DOMAIN evt.payload THEN KeySeq(evt.payload.tracks)
         ELSE track_keys
    [] evt.event_type = "cop.track" -> Append(track_keys, evt.payload.id)
    [] OTHER -> track_keys

apply_track_keys(evt) ==
  CASE evt.event_type = "cop.snapshot" ->
         IF "tracks" \in DOMAIN evt.payload THEN KeySeq(evt.payload.tracks)
         ELSE track_keys
    [] evt.event_type = "cop.track" ->
         IF evt.payload.id \in DOMAIN tracks THEN track_keys
         ELSE Append(track_keys, evt.payload.id)
    [] OTHER -> track_keys

apply_threats(evt) ==
  CASE evt.event_type = "cop.snapshot" ->
         IF "threats" \in DOMAIN evt.payload THEN evt.payload.threats ELSE threats
    [] evt.event_type = "cop.threat" ->
         LET thid == evt.payload.id
             existing == Get(threats, thid, EmptyDict)
         IN  Put(threats, thid, Put(Update(existing, evt.payload), "id", thid))
    [] OTHER -> threats

apply_paused(evt) ==
  IF evt.event_type = "cop.snapshot" /\ "paused" \in DOMAIN evt.payload
  THEN evt.payload.paused ELSE paused

apply_out(evt, c) ==
  CASE evt.event_type = "cop.snapshot" ->
         snapshot_msg(apply_agents(evt), apply_tracks(evt), apply_threats(evt),
                      apply_paused(evt), c)
    [] evt.event_type = "cop.track" ->
         Msg("cop.track", normalize_track_payload(evt.payload), c)
    [] evt.event_type = "cop.threat" ->
         Msg("cop.threat", apply_threats(evt)[evt.payload.id], c)
    [] OTHER -> Msg(evt.event_type, evt.payload, c)

\* ------------------------------------------------------------------------
\* _aging_loop: one tick over the tracks
\* ------------------------------------------------------------------------
\* age = now - last_ts, where a missing last_update_ts counts as now
age_of(tr) == now - Get(tr, "last_update_ts", now)

old_status(tr) == Get(tr, "status", "LIVE")

new_status(tr) == compute_status(age_of(tr))

\* A tick that stores the new age and leaves the status as it was.
aged_track_age_only(tr) == Put(tr, "age_sec", age_of(tr))

aged_track(tr) == Put(Put(tr, "age_sec", age_of(tr)), "status", new_status(tr))

status_update(tid, c) ==
  Msg("cop.track",
      [id |-> tid, status |-> new_status(tracks[tid]), age_sec |-> age_of(tracks[tid])],
      c)

\* A tick that reports every track, and a tick that removes none.
changed_keys_all == track_keys
to_delete_none == {}

\* the tracks whose status the tick changes, in iteration order
changed_keys ==
  SelectSeq(track_keys, LAMBDA tid : new_status(tracks[tid]) # old_status(tracks[tid]))

status_updates(c) ==
  [i \in 1..Len(changed_keys) |-> status_update(changed_keys[i], c)]

to_delete == {tid \in DOMAIN tracks : new_status(tracks[tid]) = "DEAD"}

aged_tracks == [tid \in (DOMAIN tracks) \ to_delete |-> aged_track(tracks[tid])]

\* ------------------------------------------------------------------------
\* Initial state: the module's globals, no request, no websocket
\* ------------------------------------------------------------------------
InitCop ==
  /\ agents = EmptyDict
  /\ tracks = EmptyDict
  /\ track_keys = <<>>
  /\ threats = EmptyDict
  /\ events_tail = <<>>
  /\ paused = FALSE
  /\ pause_started_ts = None
  /\ pause_accum_sec = 0
  /\ buffer = <<>>
  /\ state_lock = FREE
  /\ hub_lock = FREE
  /\ clients = {}
  /\ now = 0
  /\ pc = [t \in Tasks |-> IF t = AGING THEN "sleep" ELSE "idle"]
  /\ todo = [t \in Tasks |-> <<>>]
  /\ buffered = [r \in Reqs |-> <<>>]
  /\ op = [r \in Reqs |-> "none"]
  /\ cpc = [c \in Clients |-> "new"]
  /\ rx = [c \in Clients |-> <<>>]
  /\ broken = {}
  /\ sent = <<>>
  /\ applied = <<>>
  /\ commits = 0
  /\ ops = 0
  /\ toggles = 0

\* the agents of src/agents before their first input line
StartsFuser(gate) ==
  /\ fuser_tracks = <<>>
  /\ bearing_gate_deg = gate
  /\ fuser_in = <<>>
  /\ fuser_out = <<>>
  /\ fuser_exc = "none"

\* --bearing_gate_deg has the default 12.0
InitFuser == StartsFuser(12)

InitThreat ==
  /\ threat_in = <<>>
  /\ threat_out = <<>>
  /\ threat_exc = "none"

Init == InitCop /\ InitFuser /\ InitThreat /\ feed = <<>>

\* time passes, up to the instant d
Advance(d) ==
  /\ d > now
  /\ now' = d
  /\ UNCHANGED <<agentv, store, events_tail, pausev, locks, clients, taskv, wsv, hist>>

\* An ingest or reset request arrives at an idle handler.
Arrives(r) ==
  /\ pc[r] = "idle"
  /\ ops < MaxOps
  /\ ops' = ops + 1
  /\ UNCHANGED toggles

\* A pause or resume request arrives at an idle handler.
Toggles(r) ==
  /\ pc[r] = "idle"
  /\ toggles < MaxToggles
  /\ toggles' = toggles + 1
  /\ UNCHANGED ops

\* ------------------------------------------------------------------------
\* POST /api/ingest
\* ------------------------------------------------------------------------
\* A paused ingest that records the event in the tail and forgets it.
IngestBuffered_dropped(r, evt) ==
  /\ Arrives(r)
  /\ state_lock = FREE
  /\ paused
  /\ events_tail' = push_tail(events_tail, Msg("cop.buffered", evt, commits))
  /\ UNCHANGED <<agentv, store, pausev, locks, clients, now, taskv, wsv, sent, applied, commits>>

\* A pause buffer that is never trimmed.
buffer_event_unbounded(evt) ==
  /\ state_lock = FREE
  /\ paused
  /\ buffer' = Append(buffer, evt)
  /\ events_tail' = push_tail(events_tail, Msg("cop.buffered", evt, commits))
  /\ UNCHANGED <<agentv, store, paused, pause_started_ts, pause_accum_sec, locks, clients,
                 now, taskv, wsv, sent, applied, commits>>

\* the paused branch of ingest, under STATE_LOCK: the event is appended to the
\* buffer, the buffer trimmed to its last EVENTS_TAIL_MAX events, and the
\* event recorded in the tail
buffer_event(evt) ==
  /\ state_lock = FREE
  /\ paused
  /\ buffer' = LastN(Append(buffer, evt), EVENTS_TAIL_MAX)
  /\ events_tail' = push_tail(events_tail, Msg("cop.buffered", evt, commits))
  /\ UNCHANGED <<agentv, store, paused, pause_started_ts, pause_accum_sec, locks, clients,
                 now, taskv, wsv, sent, applied, commits>>

\* while paused: buffer the event, record it in the tail, return
IngestBuffered(r, evt) ==
  /\ Arrives(r)
  /\ buffer_event(evt)

\* An ingest request of a burst that arrives during a pause.
Floods(r) ==
  /\ pc[r] = "idle"
  /\ ops < MaxBuffered
  /\ ops' = ops + 1
  /\ UNCHANGED toggles

IngestFlood(r, evt) ==
  /\ Floods(r)
  /\ buffer_event(evt)

\* not paused, and _apply_event_locked raises ValueError: the lock is released
\* and the caller gets the error
IngestRaises(r, evt) ==
  /\ Arrives(r)
  /\ state_lock = FREE
  /\ ~paused
  /\ apply_raises(evt)
  /\ UNCHANGED <<agentv, store, events_tail, pausev, locks, clients, now, taskv,
                 wsv, sent, applied, commits>>

\* not paused: _apply_event_locked changes the state under STATE_LOCK, _emit
\* records the event in the tail and the broadcast waits for the hub lock,
\* still under STATE_LOCK
IngestApply(r, evt) ==
  /\ Arrives(r)
  /\ state_lock = FREE
  /\ ~paused
  /\ ~apply_raises(evt)
  /\ agents' = apply_agents(evt)
  /\ tracks' = apply_tracks(evt)
  /\ track_keys' = apply_track_keys(evt)
  /\ threats' = apply_threats(evt)
  /\ paused' = apply_paused(evt)
  /\ commits' = commits + 1
  /\ applied' = Append(applied, evt)
  /\ todo' = [todo EXCEPT ![r] = <<apply_out(evt, commits + 1)>>]
  /\ events_tail' = push_tail(events_tail, apply_out(evt, commits + 1))
  /\ state_lock' = r
  /\ pc' = [pc EXCEPT ![r] = "wait_hub"]
  /\ op' = [op EXCEPT ![r] = "ingest"]
  /\ UNCHANGED <<agentv, pause_started_ts, pause_accum_sec, buffer, hub_lock,
                 clients, now, buffered, wsv, sent>>

ingest(r, evt) ==
  \/ IngestBuffered(r, evt)
  \/ IngestRaises(r, evt)
  \/ IngestApply(r, evt)

\* ------------------------------------------------------------------------
\* POST /api/reset
\* ------------------------------------------------------------------------
\* A reset that leaves the pause buffer as it is.
reset_state_keeps_buffer(r) ==
  /\ Arrives(r)
  /\ state_lock = FREE
  /\ agents' = EmptyDict
  /\ tracks' = EmptyDict
  /\ track_keys' = <<>>
  /\ threats' = EmptyDict
  /\ events_tail' =
       push_tail(<<>>, snapshot_msg(EmptyDict, EmptyDict, EmptyDict, FALSE, commits + 1))
  /\ buffer' = buffer
  /\ paused' = FALSE
  /\ pause_started_ts' = None
  /\ pause_accum_sec' = 0
  /\ commits' = commits + 1
  /\ todo' = [todo EXCEPT ![r] =
                <<snapshot_msg(EmptyDict, EmptyDict, EmptyDict, FALSE, commits + 1)>>]
  /\ state_lock' = r
  /\ pc' = [pc EXCEPT ![r] = "wait_hub"]
  /\ op' = [op EXCEPT ![r] = "reset"]
  /\ UNCHANGED <<agentv, hub_lock, clients, now, buffered, wsv, sent, applied>>

reset_state(r) ==
  /\ Arrives(r)
  /\ state_lock = FREE
  /\ agents' = EmptyDict
  /\ tracks' = EmptyDict
  /\ track_keys' = <<>>
  /\ threats' = EmptyDict
  /\ events_tail' =
       push_tail(<<>>, snapshot_msg(EmptyDict, EmptyDict, EmptyDict, FALSE, commits + 1))
  /\ buffer' = <<>>
  /\ paused' = FALSE
  /\ pause_started_ts' = None
  /\ pause_accum_sec' = 0
  /\ commits' = commits + 1
  /\ todo' = [todo EXCEPT ![r] =
                <<snapshot_msg(EmptyDict, EmptyDict, EmptyDict, FALSE, commits + 1)>>]
  /\ state_lock' = r
  /\ pc' = [pc EXCEPT ![r] = "wait_hub"]
  /\ op' = [op EXCEPT ![r] = "reset"]
  /\ UNCHANGED <<agentv, hub_lock, clients, now, buffered, wsv, sent, applied>>

\* ------------------------------------------------------------------------
\* POST /api/pause
\* ------------------------------------------------------------------------
\* The two events of a pause in the other order.
pause_msgs_swapped(p, c) ==
  <<snapshot_msg(agents, tracks, threats, p, c), control_msg(p, c)>>

\* the two events of a pause or of a resume: cop.control, then cop.snapshot
pause_msgs(p, c) == <<control_msg(p, c), snapshot_msg(agents, tracks, threats, p, c)>>

\* paused=true while not paused
PauseEnter(r) ==
  /\ Toggles(r)
  /\ state_lock = FREE
  /\ ~paused
  /\ paused' = TRUE
  /\ pause_started_ts' = now
  /\ commits' = commits + 1
  /\ todo' = [todo EXCEPT ![r] = pause_msgs(TRUE, commits + 1)]
  /\ state_lock' = r
  /\ events_tail' = push_tail(events_tail, control_msg(TRUE, commits + 1))
  /\ pc' = [pc EXCEPT ![r] = "wait_hub"]
  /\ op' = [op EXCEPT ![r] = "pause"]
  /\ UNCHANGED <<agentv, store, pause_accum_sec, buffer, hub_lock, clients, now,
                 buffered, wsv, sent, applied>>

\* paused=false while paused
PauseLeave(r) ==
  /\ Toggles(r)
  /\ state_lock = FREE
  /\ paused
  /\ paused' = FALSE
  /\ pause_accum_sec' =
       IF pause_started_ts # None THEN pause_accum_sec + (now - pause_started_ts)
       ELSE pause_accum_sec
  /\ pause_started_ts' = None
  /\ commits' = commits + 1
  /\ todo' = [todo EXCEPT ![r] = pause_msgs(FALSE, commits + 1)]
  /\ state_lock' = r
  /\ events_tail' = push_tail(events_tail, control_msg(FALSE, commits + 1))
  /\ pc' = [pc EXCEPT ![r] = "wait_hub"]
  /\ op' = [op EXCEPT ![r] = "resume"]
  /\ UNCHANGED <<agentv, store, buffer, hub_lock, clients, now, buffered, wsv,
                 sent, applied>>

\* A request for the state the server is in that empties the pause buffer.
PauseNoop_drops_buffer(r, p) ==
  /\ Toggles(r)
  /\ state_lock = FREE
  /\ p = paused
  /\ buffer' = <<>>
  /\ pc' = [pc EXCEPT ![r] = IF p THEN "idle" ELSE "relock"]
  /\ UNCHANGED <<agentv, store, events_tail, paused, pause_started_ts, pause_accum_sec,
                 locks, clients, now, op, todo, buffered, wsv, sent, applied, commits>>

\* a request that asks for the state the server is in: neither branch runs; a
\* paused=false request goes on to take the lock a second time
PauseNoop(r, p) ==
  /\ Toggles(r)
  /\ state_lock = FREE
  /\ p = paused
  /\ pc' = [pc EXCEPT ![r] = IF p THEN "idle" ELSE "relock"]
  /\ UNCHANGED <<agentv, store, events_tail, pausev, locks, clients, now, op, todo, buffered,
                 wsv, sent, applied, commits>>

\* lines 219-224: the second critical section of a paused=false request reads
\* STATE.get("_buffer_to_process"), which is None, into the local, and returns
PauseRelock(r) ==
  /\ pc[r] = "relock"
  /\ state_lock = FREE
  /\ buffered' = [buffered EXCEPT ![r] = <<>>]
  /\ pc' = [pc EXCEPT ![r] = "idle"]
  /\ op' = [op EXCEPT ![r] = "none"]
  /\ UNCHANGED <<agentv, store, events_tail, pausev, locks, clients, now, todo, wsv, hist>>

\* ------------------------------------------------------------------------
\* _emit and WSHub.broadcast
\* ------------------------------------------------------------------------
\* A broadcast that cannot start while STATE_LOCK is held.
HubAcquire_needs_state(t) ==
  /\ pc[t] = "wait_hub"
  /\ hub_lock = FREE
  /\ state_lock = FREE
  /\ hub_lock' = t
  /\ pc' = [pc EXCEPT ![t] = "send"]
  /\ UNCHANGED <<agentv, store, events_tail, pausev, state_lock, clients, now, op, todo,
                 buffered, wsv, hist>>

\* broadcast: async with self.lock
HubAcquire(t) ==
  /\ pc[t] = "wait_hub"
  /\ hub_lock = FREE
  /\ hub_lock' = t
  /\ pc' = [pc EXCEPT ![t] = "send"]
  /\ UNCHANGED <<agentv, store, events_tail, pausev, state_lock, clients, now, op, todo,
                 buffered, wsv, hist>>

\* A broadcast that keeps the sockets whose send failed.
dead_none == {}

\* the sockets whose send raises: dead, discarded when the loop is over
dead == clients \cap broken

\* the sockets an event is sent to
receivers == clients \ dead

\* the sends of one broadcast (rx keeps the event_type of what a socket got)
deliver(m) ==
  [c \in Clients |-> IF c \in receivers THEN Append(rx[c], m.event_type) ELSE rx[c]]

\* The broadcast of the first event of todo[t] ends and the hub lock is released.
\* With another event to emit, _emit records it in the tail and the next
\* broadcast waits for the hub lock.
SendMore(t) ==
  /\ pc[t] = "send"
  /\ Len(todo[t]) > 1
  /\ rx' = deliver(Head(todo[t]))
  /\ sent' = Append(sent, Head(todo[t]))
  /\ hub_lock' = FREE
  /\ todo' = [todo EXCEPT ![t] = Tail(todo[t])]
  /\ events_tail' = push_tail(events_tail, todo[t][2])
  /\ pc' = [pc EXCEPT ![t] = "wait_hub"]
  /\ clients' = clients \ dead
  /\ UNCHANGED <<agentv, store, pausev, state_lock, now, op, buffered, cpc, broken,
                 applied, commits, ops, toggles>>

\* The last broadcast of a request ends: the handler leaves its critical
\* section.  A resume first moves STATE["buffer"] to its local (lines 215-216).
SendLast(r) ==
  /\ r \in Reqs
  /\ pc[r] = "send"
  /\ Len(todo[r]) = 1
  /\ rx' = deliver(Head(todo[r]))
  /\ sent' = Append(sent, Head(todo[r]))
  /\ hub_lock' = FREE
  /\ todo' = [todo EXCEPT ![r] = <<>>]
  /\ state_lock' = FREE
  /\ IF op[r] = "resume"
     THEN /\ buffered' = [buffered EXCEPT ![r] = buffer]
          /\ buffer' = <<>>
          /\ pc' = [pc EXCEPT ![r] = "relock"]
          /\ op' = op
     ELSE /\ UNCHANGED <<buffered, buffer>>
          /\ pc' = [pc EXCEPT ![r] = "idle"]
          /\ op' = [op EXCEPT ![r] = "none"]
  /\ clients' = clients \ dead
  /\ UNCHANGED <<agentv, store, events_tail, paused, pause_started_ts, pause_accum_sec,
                 now, cpc, broken, applied, commits, ops, toggles>>

\* The last broadcast of an aging tick ends: the loop sleeps again.
AgingSendLast ==
  /\ pc[AGING] = "send"
  /\ Len(todo[AGING]) = 1
  /\ rx' = deliver(Head(todo[AGING]))
  /\ sent' = Append(sent, Head(todo[AGING]))
  /\ hub_lock' = FREE
  /\ todo' = [todo EXCEPT ![AGING] = <<>>]
  /\ pc' = [pc EXCEPT ![AGING] = "sleep"]
  /\ clients' = clients \ dead
  /\ UNCHANGED <<agentv, store, events_tail, pausev, state_lock, now, op, buffered,
                 cpc, broken, applied, commits, ops, toggles>>

\* ------------------------------------------------------------------------
\* _aging_loop
\* ------------------------------------------------------------------------
\* A paused tick that still ages and removes the tracks.
AgingSkip_ages ==
  /\ pc[AGING] = "sleep"
  /\ state_lock = FREE
  /\ paused
  /\ tracks' = aged_tracks
  /\ track_keys' = Without(track_keys, to_delete)
  /\ UNCHANGED <<agentv, agents, threats, events_tail, pausev, locks, clients, now, taskv,
                 wsv, hist>>

\* a tick while paused: continue
AgingSkip ==
  /\ pc[AGING] = "sleep"
  /\ state_lock = FREE
  /\ paused
  /\ UNCHANGED vars

\* A tick while not paused: ages and statuses are written and the dead tracks
\* removed under STATE_LOCK; the status updates are emitted after the lock is
\* released, the first being recorded in the tail at once.
AgingTick ==
  /\ pc[AGING] = "sleep"
  /\ state_lock = FREE
  /\ ~paused
  /\ LET ups == status_updates(commits + 1) IN
       /\ tracks' = aged_tracks
       /\ track_keys' = Without(track_keys, to_delete)
       /\ todo' = [todo EXCEPT ![AGING] = ups]
       /\ IF ups = <<>>
          THEN UNCHANGED <<events_tail, commits, pc>>
          ELSE /\ events_tail' = push_tail(events_tail, ups[1])
               /\ commits' = commits + 1
               /\ pc' = [pc EXCEPT ![AGING] = "wait_hub"]
  /\ UNCHANGED <<agentv, agents, threats, pausev, locks, clients, now, op, buffered, wsv,
                 sent, applied, ops, toggles>>

\* ------------------------------------------------------------------------
\* ws_endpoint (the handler of lines 258-273: the route registered first for
\* /ws is the one that serves it)
\* ------------------------------------------------------------------------
\* HUB.connect: the socket is accepted, then added to the clients under the
\* hub lock
WsRegister(c) ==
  /\ cpc[c] = "new"
  /\ hub_lock = FREE
  /\ clients' = clients \cup {c}
  /\ cpc' = [cpc EXCEPT ![c] = "registered"]
  /\ UNCHANGED <<agentv, store, events_tail, pausev, locks, now, taskv, rx, broken, hist>>

\* the snapshot is built under STATE_LOCK and sent to the socket; if the send
\* raises, the handler goes on to HUB.disconnect
WsSnapshot(c) ==
  /\ cpc[c] = "registered"
  /\ state_lock = FREE
  /\ rx' = [rx EXCEPT ![c] =
              IF c \in broken THEN rx[c]
              ELSE Append(rx[c],
                          snapshot_msg(agents, tracks, threats, paused, commits).event_type)]
  /\ cpc' = [cpc EXCEPT ![c] = "open"]
  /\ UNCHANGED <<agentv, store, events_tail, pausev, locks, clients, now, taskv, broken, hist>>

\* The connection of a socket is lost: from now on a send to it raises.
WsBreaks(c) ==
  /\ cpc[c] \in {"registered", "open"}
  /\ c \notin broken
  /\ broken' = broken \cup {c}
  /\ UNCHANGED <<agentv, store, events_tail, pausev, locks, clients, now, taskv, cpc, rx, hist>>

\* receive_text raises WebSocketDisconnect: HUB.disconnect
WsDisconnect(c) ==
  /\ cpc[c] = "open"
  /\ hub_lock = FREE
  /\ clients' = clients \ {c}
  /\ cpc' = [cpc EXCEPT ![c] = "closed"]
  /\ UNCHANGED <<agentv, store, events_tail, pausev, locks, now, taskv, rx, broken, hist>>

\* ------------------------------------------------------------------------
\* The standalone COP server of src/cop/server.py.  It has its own STATE
\* (agents, tracks, threats, events_tail), CLIENTS with CLIENTS_LOCK (hub_lock
\* here) and STATE_LOCK; its behaviours are those of SpecSrv.  No critical
\* section of STATE_LOCK holds an await, so the lock is free whenever another
\* task runs.  broadcast is the loop of WSHub.broadcast: HubAcquire and
\* SendLast model it.  server_time is the clock in whole seconds.
\* ------------------------------------------------------------------------
EVENT_TAIL_MAX == TailBound

\* _append_event_tail
append_event_tail(tail, ev) == LastN(Append(tail, ev), EVENT_TAIL_MAX)

\* the request bodies sent to /ingest: two without a required field
SrvBodies ==
  {[event_type |-> "cop.track", payload |-> [id |-> "t1", lat |-> 1]],
   [event_type |-> "cop.threat", payload |-> [gid |-> "t1", level |-> "HIGH"]],
   [event_type |-> "cop.track", payload |-> [lat |-> 1]],
   [event_type |-> "cop.alert", payload |-> [msg |-> "hello"]],
   [event_type |-> "cop.alert", payload |-> [msg |-> "hello", server_time |-> 7]],
   [payload |-> [id |-> "t1"]],
   [event_type |-> "cop.track"]}

\* not event_type or payload is None
srv_missing(body) == {"event_type", "payload"} \ (DOMAIN body) # {}

\* payload.get("id") or payload.get("track_id") or ...
IdKeys == <<"id", "track_id", "global_track_id", "gid">>
srv_has_id(payload) == \E i \in DOMAIN IdKeys : IdKeys[i] \in DOMAIN payload
srv_id(payload) ==
  payload[IdKeys[CHOOSE i \in DOMAIN IdKeys :
                   /\ IdKeys[i] \in DOMAIN payload
                   /\ \A j \in 1..(i - 1) : IdKeys[j] \notin DOMAIN payload]]

\* the payload with the server_time that ingest gives it when it has none
srv_payload(payload) ==
  IF "server_time" \in DOMAIN payload THEN payload
  ELSE Put(payload, "server_time", now)

\* the event ingest records and broadcasts
srv_event(body, c) == Msg(body.event_type, srv_payload(body.payload), c)

\* /ingest with a body that lacks event_type or payload: 400, nothing done
SrvRejects(r, body) ==
  /\ Arrives(r)
  /\ srv_missing(body)
  /\ UNCHANGED <<agentv, store, events_tail, pausev, locks, clients, now, taskv,
                 wsv, sent, applied, commits>>

\* /ingest: the event is recorded in the tail and stored by its id under
\* STATE_LOCK; the broadcast follows, outside the lock
SrvIngest(r, body) ==
  /\ Arrives(r)
  /\ ~srv_missing(body)
  /\ state_lock = FREE
  /\ events_tail' = append_event_tail(events_tail, srv_event(body, commits + 1))
  /\ tracks' = IF body.event_type = "cop.track" /\ srv_has_id(body.payload)
               THEN Put(tracks, srv_id(body.payload), srv_payload(body.payload))
               ELSE tracks
  /\ track_keys' = IF body.event_type = "cop.track" /\ srv_has_id(body.payload)
                      /\ srv_id(body.payload) \notin DOMAIN tracks
                   THEN Append(track_keys, srv_id(body.payload)) ELSE track_keys
  /\ threats' = IF body.event_type = "cop.threat" /\ srv_has_id(body.payload)
                THEN Put(threats, srv_id(body.payload), srv_payload(body.payload))
                ELSE threats
  /\ commits' = commits + 1
  /\ applied' = Append(applied, body)
  /\ todo' = [todo EXCEPT ![r] = <<srv_event(body, commits + 1)>>]
  /\ pc' = [pc EXCEPT ![r] = "wait_hub"]
  /\ op' = [op EXCEPT ![r] = "ingest"]
  /\ UNCHANGED <<agentv, agents, pausev, locks, clients, now, buffered, wsv, sent>>

\* the snapshot api_reset broadcasts
srv_reset_snapshot(c) ==
  Msg("cop.snapshot",
      [tracks |-> <<>>, threats |-> <<>>, reset |-> TRUE, server_time |-> now], c)

\* /api/reset: tracks, threats and tail cleared and cop.reset recorded under
\* STATE_LOCK; the empty snapshot is broadcast outside the lock
SrvReset(r) ==
  /\ Arrives(r)
  /\ state_lock = FREE
  /\ tracks' = EmptyDict
  /\ track_keys' = <<>>
  /\ threats' = EmptyDict
  /\ events_tail' = append_event_tail(<<>>, Msg("cop.reset", [server_time |-> now], commits + 1))
  /\ commits' = commits + 1
  /\ todo' = [todo EXCEPT ![r] = <<srv_reset_snapshot(commits + 1)>>]
  /\ pc' = [pc EXCEPT ![r] = "wait_hub"]
  /\ op' = [op EXCEPT ![r] = "reset"]
  /\ UNCHANGED <<agentv, agents, pausev, locks, clients, now, buffered, wsv, sent, applied>>

\* A websocket that is registered and sent no snapshot.
SrvWsConnect_late(c) ==
  /\ cpc[c] = "new"
  /\ hub_lock = FREE
  /\ clients' = clients \cup {c}
  /\ cpc' = [cpc EXCEPT ![c] = "open"]
  /\ UNCHANGED <<agentv, store, events_tail, pausev, locks, now, taskv, rx, broken, hist>>

\* ws_endpoint: the socket is accepted and added to CLIENTS under CLIENTS_LOCK;
\* STATE_LOCK, when free, is taken without an await, the snapshot built and
\* its send begun before any other task runs
SrvWsConnect(c) ==
  /\ cpc[c] = "new"
  /\ hub_lock = FREE
  /\ clients' = clients \cup {c}
  /\ IF state_lock = FREE
     THEN /\ rx' = [rx EXCEPT ![c] = Append(rx[c], "cop.snapshot")]
          /\ cpc' = [cpc EXCEPT ![c] = "open"]
     ELSE /\ rx' = rx
          /\ cpc' = [cpc EXCEPT ![c] = "registered"]
  /\ UNCHANGED <<agentv, store, events_tail, pausev, locks, now, taskv, broken, hist>>

\* The standalone server: ingest, reset, websockets that connect, lose their
\* connection and leave (finally: CLIENTS.discard under CLIENTS_LOCK).
NextSrv ==
  \/ \E d \in Instants : Advance(d)
  \/ \E r \in Reqs, body \in SrvBodies : SrvRejects(r, body)
  \/ \E r \in Reqs, body \in SrvBodies : SrvIngest(r, body)
  \/ \E r \in Reqs : SrvReset(r)
  \/ \E r \in Reqs : HubAcquire(r)
  \/ \E r \in Reqs : SendLast(r)
  \/ \E c \in Clients : SrvWsConnect(c)
  \/ \E c \in Joiners : WsBreaks(c)
  \/ \E c \in Clients : WsDisconnect(c)

SpecSrv == Init /\ [][NextSrv]_vars

\* ------------------------------------------------------------------------
\* The server
\* ------------------------------------------------------------------------
\* The server without pause requests and without websockets: ingestion, reset
\* and the aging of the tracks.
Next ==
  \/ \E d \in Instants : Advance(d)
  \/ \E r \in Reqs, evt \in IngestEvents : IngestBuffered(r, evt)
  \/ \E r \in Reqs, evt \in IngestEvents : IngestRaises(r, evt)
  \/ \E r \in Reqs, evt \in IngestEvents : IngestApply(r, evt)
  \/ \E r \in Reqs : reset_state(r)
  \/ \E t \in Tasks : HubAcquire(t)
  \/ \E t \in Tasks : SendMore(t)
  \/ \E r \in Reqs : SendLast(r)
  \/ AgingSendLast
  \/ AgingSkip
  \/ AgingTick

Spec == Init /\ [][Next]_vars

\* The same server under fair scheduling: the clock advances, the aging loop
\* wakes up every AGING_TICK_SEC, a task waiting for the hub lock gets it and
\* a send returns.  Requests arrive or not.
Progress ==
  /\ WF_vars(AgingTick)
  /\ WF_vars(AgingSendLast)
  /\ WF_vars(\E t \in Tasks : HubAcquire(t))
  /\ WF_vars(\E t \in Tasks : SendMore(t))
  /\ WF_vars(\E r \in Reqs : SendLast(r))

Fairness == WF_vars(\E d \in Instants : Advance(d)) /\ Progress

SpecLive == Init /\ [][Next]_vars /\ Fairness

\* The events ingested around a pause.
PauseEvents ==
  {[event_type |-> "cop.track", payload |-> [id |-> "t1", lat |-> 1]],
   [event_type |-> "cop.threat", payload |-> [id |-> "t1", level |-> "HIGH"]]}

\* The server with pause and resume requests, without websockets.
NextPause ==
  \/ \E d \in Instants : Advance(d)
  \/ \E r \in Reqs, evt \in PauseEvents : IngestBuffered(r, evt)
  \/ \E r \in Reqs, evt \in PauseEvents : IngestApply(r, evt)
  \/ \E r \in Reqs : PauseEnter(r)
  \/ \E r \in Reqs : PauseLeave(r)
  \/ \E r \in Reqs, p \in BOOLEAN : PauseNoop(r, p)
  \/ \E r \in Reqs : PauseRelock(r)
  \/ \E t \in Tasks : HubAcquire(t)
  \/ \E t \in Tasks : SendMore(t)
  \/ \E r \in Reqs : SendLast(r)
  \/ AgingSendLast
  \/ AgingSkip
  \/ AgingTick

SpecPause == Init /\ [][NextPause]_vars

\* The server under a burst of ingests during a pause: pause, ingest, resume.
NextBuffer ==
  \/ \E d \in Instants : Advance(d)
  \/ \E r \in Reqs, evt \in PauseEvents : IngestFlood(r, evt)
  \/ \E r \in Reqs : PauseEnter(r)
  \/ \E r \in Reqs : PauseLeave(r)
  \/ \E r \in Reqs : PauseRelock(r)
  \/ \E t \in Tasks : HubAcquire(t)
  \/ \E t \in Tasks : SendMore(t)
  \/ \E r \in Reqs : SendLast(r)

SpecBuffer == Init /\ [][NextBuffer]_vars

\* The events ingested while websockets connect.
WsEvents == {[event_type |-> "cop.track", payload |-> [id |-> "t1", lat |-> 1]]}

\* The server with its websockets.
NextWs ==
  \/ \E d \in Instants : Advance(d)
  \/ \E r \in Reqs, evt \in WsEvents : IngestBuffered(r, evt)
  \/ \E r \in Reqs, evt \in WsEvents : IngestApply(r, evt)
  \/ \E r \in Reqs : reset_state(r)
  \/ \E r \in Reqs : PauseEnter(r)
  \/ \E r \in Reqs : PauseLeave(r)
  \/ \E t \in Tasks : HubAcquire(t)
  \/ \E t \in Tasks : SendMore(t)
  \/ \E r \in Reqs : SendLast(r)
  \/ AgingSendLast
  \/ AgingSkip
  \/ AgingTick
  \/ \E c \in Joiners : WsRegister(c)
  \/ \E c \in Joiners : WsSnapshot(c)
  \/ \E c \in Joiners : WsDisconnect(c)

SpecWs == Init /\ [][NextWs]_vars

\* The events ingested around pauses that an ingested snapshot can begin.
DrainEvents ==
  WsEvents \cup {[event_type |-> "cop.snapshot", payload |-> [paused |-> TRUE]],
                 [event_type |-> "cop.snapshot", payload |-> [paused |-> FALSE]]}

\* The server with every operation that writes the paused flag or the pause
\* buffer: ingest, snapshot ingest, pause, resume and reset.
NextDrain ==
  \/ \E r \in Reqs, evt \in DrainEvents : IngestBuffered(r, evt)
  \/ \E r \in Reqs, evt \in DrainEvents : IngestApply(r, evt)
  \/ \E r \in Reqs : reset_state(r)
  \/ \E r \in Reqs : PauseEnter(r)
  \/ \E r \in Reqs : PauseLeave(r)
  \/ \E r \in Reqs, p \in BOOLEAN : PauseNoop(r, p)
  \/ \E r \in Reqs : PauseRelock(r)
  \/ \E t \in Tasks : HubAcquire(t)
  \/ \E t \in Tasks : SendMore(t)
  \/ \E r \in Reqs : SendLast(r)

SpecDrain == Init /\ [][NextDrain]_vars

\* Every operation of the server at once, under fair scheduling: a request
\* handler, the aging loop and a websocket contend for the two locks.  The
\* clock makes one jump, long enough for a tick to have a track to report.
NextLocks ==
  \/ Advance(TTL_DEAD_SEC)
  \/ \E r \in Reqs, evt \in WsEvents : IngestBuffered(r, evt)
  \/ \E r \in Reqs, evt \in WsEvents : IngestApply(r, evt)
  \/ \E r \in Reqs : reset_state(r)
  \/ \E r \in Reqs : PauseEnter(r)
  \/ \E r \in Reqs : PauseLeave(r)
  \/ \E r \in Reqs : PauseRelock(r)
  \/ \E t \in Tasks : HubAcquire(t)
  \/ \E t \in Tasks : SendMore(t)
  \/ \E r \in Reqs : SendLast(r)
  \/ AgingSendLast
  \/ AgingSkip
  \/ AgingTick
  \/ \E c \in Joiners : WsRegister(c)
  \/ \E c \in Joiners : WsSnapshot(c)
  \/ \E c \in Joiners : WsDisconnect(c)

SpecLocks ==
  /\ Init
  /\ [][NextLocks]_vars
  /\ WF_vars(Advance(TTL_DEAD_SEC))
  /\ Progress
  /\ WF_vars(\E r \in Reqs : PauseRelock(r))

\* The hub with two websockets, one of which may lose its connection, under
\* ingest, pause and reset broadcasts.
NextHub ==
  \/ \E r \in Reqs, evt \in WsEvents : IngestApply(r, evt)
  \/ \E r \in Reqs : reset_state(r)
  \/ \E r \in Reqs : PauseEnter(r)
  \/ \E t \in Tasks : HubAcquire(t)
  \/ \E t \in Tasks : SendMore(t)
  \/ \E r \in Reqs : SendLast(r)
  \/ \E c \in Clients : WsRegister(c)
  \/ \E c \in Clients : WsSnapshot(c)
  \/ \E c \in Joiners : WsBreaks(c)
  \/ \E c \in Clients : WsDisconnect(c)

SpecHub == Init /\ [][NextHub]_vars

\* ------------------------------------------------------------------------
\* The fusion agent of src/agents/fuser/fuser_agent.py: a loop over the lines
\* of its standard input.  fuser_tracks is the dict `tracks` in insertion
\* order, fuser_in the lines read so far, fuser_out the lines printed,
\* fuser_exc the exception that ended the process ("none" while it runs).
\* An attribute that is None is a field the record does not have.  Angles,
\* ranges and speeds are whole numbers.  A track id T-Rrrr-Aaaa is the pair
\* of its two bin numbers, which the format maps one to one.  Timestamps and
\* event ids are left out; an evidence note is the name of its sensor.
\* ------------------------------------------------------------------------
MaxLines == 3

\* the values of --bearing_gate_deg the model starts the agent with
BearingGates == {8, 12}

RadarDets ==
  [near    |-> [range_m |-> 450, az_deg |-> 0, radial_velocity_mps |-> -10],
   near2   |-> [range_m |-> 420, az_deg |-> 5, radial_velocity_mps |-> 0],
   far     |-> [range_m |-> 120, az_deg |-> 5, radial_velocity_mps |-> -1],
   east    |-> [range_m |-> 450, az_deg |-> 20],
   south   |-> [range_m |-> 450, az_deg |-> 175, radial_velocity_mps |-> 3],
   west    |-> [range_m |-> 450, az_deg |-> -170, radial_velocity_mps |-> -10],
   west_again |-> [range_m |-> 450, az_deg |-> 190, radial_velocity_mps |-> -10],
   no_range |-> [az_deg |-> 0],
   no_az   |-> [range_m |-> 450]]

Radar(cid, dets) ==
  [event_type |-> "sensor.detection.radar", correlation_id |-> cid,
   payload |-> [detections |-> dets]]

RadarEvents ==
  {Radar("k1", <<RadarDets.near>>),
   Radar("k2", <<RadarDets.near2>>),
   Radar("k2", <<RadarDets.far>>),
   Radar("k3", <<RadarDets.no_range, RadarDets.east>>),
   Radar("k3", <<RadarDets.south>>),
   Radar("k3", <<RadarDets.west>>),
   Radar("k4", <<RadarDets.west_again>>),
   Radar("k4", <<RadarDets.no_az>>)}

Rf(cid, dets) ==
  [event_type |-> "sensor.detection.rf", correlation_id |-> cid,
   payload |-> [detections |-> dets]]

RfEvents ==
  {Rf("k5", <<[bearing_deg |-> 10, conf |-> 9]>>),
   Rf("k6", <<[bearing_deg |-> 100, conf |-> 9]>>),
   Rf("k6", <<[bearing_deg |-> -175, conf |-> 9]>>),
   Rf("k6", <<[bearing_deg |-> 100, conf |-> 2], [bearing_deg |-> 10, conf |-> 9]>>),
   Rf("k7", <<[conf |-> 9]>>),
   Rf("k8", <<>>),
   [event_type |-> "sensor.detection.rf",
    payload |-> [detections |-> <<[bearing_deg |-> -10]>>]]}

\* a line of another event type, a blank line, a line that is not JSON
OtherLines ==
  {[event_type |-> "cop.track", correlation_id |-> "k9", payload |-> [id |-> "t1"]],
   [raw |-> ""],
   [raw |-> "{\"event_type\": \"sensor.det"]}

Lines == RadarEvents \cup RfEvents \cup OtherLines

\* not line, after strip
is_blank(line) == "raw" \in DOMAIN line /\ line.raw = ""

\* json.loads(line) raises JSONDecodeError
loads_raises(line) == "raw" \in DOMAIN line /\ line.raw # ""

wrap_deg(a) == ((a + 180) % 360) - 180

\* A difference of angles taken without wrapping.
ang_diff_deg_unwrapped(a, b) == IF a - b < 0 THEN b - a ELSE a - b

ang_diff_deg(a, b) ==
  IF wrap_deg(a - b) < 0 THEN 0 - wrap_deg(a - b) ELSE wrap_deg(a - b)

make_envelope(event_type, correlation_id, payload) ==
  [event_type |-> event_type, source |-> "fuser-agent",
   correlation_id |-> correlation_id, payload |-> payload]

\* Track.__init__
Track(track_id) == [track_id |-> track_id, supporting_sensors |-> <<>>, evidence |-> <<>>]

\* A touch_sensor that records no radar hit.
touch_sensor_rf_only(tr, s) ==
  IF s = "RADAR" THEN tr
  ELSE [tr EXCEPT !.supporting_sensors = Append(tr.supporting_sensors, [sensor |-> s, n |-> 1]),
                  !.evidence = Append(tr.evidence, s)]

\* Track.touch_sensor: supporting_sensors is the dict in insertion order
touch_sensor(tr, s) ==
  LET ss == tr.supporting_sensors
      hit == {i \in DOMAIN ss : ss[i].sensor = s}
  IN  [tr EXCEPT
         !.supporting_sensors =
            IF hit = {} THEN Append(ss, [sensor |-> s, n |-> 1])
            ELSE [i \in DOMAIN ss |->
                    IF i \in hit THEN [ss[i] EXCEPT !.n = @ + 1] ELSE ss[i]],
         !.evidence = Append(tr.evidence, s)]

num_unique_sensors(tr) == Len(tr.supporting_sensors)

\* An id taken from azimuth bins of 30 degrees.
make_track_id_wide(range_m, az_deg) ==
  [r_bin |-> range_m \div 100, a_bin |-> (az_deg + 180) \div 30]

make_track_id(range_m, az_deg) ==
  [r_bin |-> range_m \div 100, a_bin |-> (az_deg + 180) \div 10]

\* the position in trs of the track with this id, 0 when there is none
index_of(trs, track_id) ==
  IF \E i \in DOMAIN trs : trs[i].track_id = track_id
  THEN CHOOSE i \in DOMAIN trs : trs[i].track_id = track_id
  ELSE 0

\* one detection of a radar event: dropped without range or azimuth, else
\* the track of its bucket is created if needed and refreshed
radar_det(trs, det) ==
  IF "range_m" \notin DOMAIN det \/ "az_deg" \notin DOMAIN det THEN trs
  ELSE
    LET track_id == make_track_id(det.range_m, det.az_deg)
        old == index_of(trs, track_id)
        i == IF old = 0 THEN Len(trs) + 1 ELSE old
        tr == IF old = 0 THEN Track(track_id) ELSE trs[old]
        set == Update(tr, [range_m |-> det.range_m,
                           az_deg |-> det.az_deg,
                           el_deg |-> Get(det, "el_deg", 0),
                           radial_velocity_mps |-> Get(det, "radial_velocity_mps", 0)])
    IN  [k \in 1..(IF old = 0 THEN Len(trs) + 1 ELSE Len(trs)) |->
           IF k = i THEN touch_sensor(set, "RADAR") ELSE trs[k]]

\* for det in dets
RECURSIVE radar_dets(_, _)
radar_dets(trs, dets) ==
  IF dets = <<>> THEN trs
  ELSE radar_dets(radar_det(trs, Head(dets)), Tail(dets))

\* find_best_track_for_rf: the position of the first track at the least
\* angular distance, 0 when no track has an azimuth or the least distance
\* exceeds the gate
\* A search in which the last of the equally close tracks wins.
find_best_track_for_rf_last(trs, bearing_deg) ==
  LET cand == {i \in DOMAIN trs : "az_deg" \in DOMAIN trs[i]}
      d(i) == ang_diff_deg(trs[i].az_deg, bearing_deg)
      best == CHOOSE i \in cand :
                \A j \in cand : d(i) < d(j) \/ (d(i) = d(j) /\ i >= j)
  IN  IF cand = {} THEN 0
      ELSE IF d(best) <= bearing_gate_deg THEN best
      ELSE 0

find_best_track_for_rf(trs, bearing_deg) ==
  LET cand == {i \in DOMAIN trs : "az_deg" \in DOMAIN trs[i]}
      d(i) == ang_diff_deg(trs[i].az_deg, bearing_deg)
      best == CHOOSE i \in cand :
                \A j \in cand : d(i) < d(j) \/ (d(i) = d(j) /\ i <= j)
  IN  IF cand = {} THEN 0
      ELSE IF d(best) <= bearing_gate_deg THEN best
      ELSE 0

\* max(0.0, -vr)
closing_speed(vr) == IF 0 - vr > 0 THEN 0 - vr ELSE 0

\* A time-to-intercept rule that fires for a long time to intercept.
tti_under_60_inverted(r, closing) == r > 60 * closing

\* r / closing < 60, for closing > 0
tti_under_60(r, closing) == r < 60 * closing

\* round(r / closing, 1), in tenths of a second
tti_tenths(r, closing) == (20 * r + closing) \div (2 * closing)

level_of(score) ==
  IF score >= 80 THEN "HIGH" ELSE IF score >= 50 THEN "MEDIUM" ELSE "LOW"

action_of(level) == IF level \in {"HIGH", "MEDIUM"} THEN "ALERT" ELSE "OBSERVE"

Min(a, b) == IF a < b THEN a ELSE b

\* the base score the fusion agent computes for a confirmed track
fuser_base(r, closing) ==
  (IF closing > 5 THEN 20 ELSE 0)
  + (IF r < 500 THEN 30 ELSE 0)
  + (IF closing > 0 /\ tti_under_60(r, closing) THEN 40 ELSE 0)

fuser_reasons(r, closing) ==
  (IF closing > 5 THEN <<"Approaching">> ELSE <<>>)
  \o (IF r < 500 THEN <<"Range < 500m">> ELSE <<>>)
  \o (IF closing > 0 /\ tti_under_60(r, closing) THEN <<"TTI < 60s">> ELSE <<>>)
  \o <<"Multi-sensor confirmed">>

\* A boost that is not clamped.
fuser_score_unclamped(r, closing) == fuser_base(r, closing) + 20

\* the +20 multi-sensor boost
fuser_score(r, closing) == Min(100, fuser_base(r, closing) + 20)

\* A report that is CONFIRMED only from three kinds of sensor.
track_payload_three(tr) ==
  [global_track_id |-> tr.track_id,
   status |-> IF num_unique_sensors(tr) >= 3 THEN "CONFIRMED" ELSE "TENTATIVE",
   kinematics |-> [range_m |-> Get(tr, "range_m", None),
                   az_deg |-> Get(tr, "az_deg", None),
                   el_deg |-> Get(tr, "el_deg", None),
                   radial_velocity_mps |-> Get(tr, "radial_velocity_mps", None)],
   classification |-> [label |-> "drone", conf_tenths |-> 7],
   supporting_sensors |->
     [i \in DOMAIN tr.supporting_sensors |-> tr.supporting_sensors[i].sensor],
   evidence |-> LastN(tr.evidence, 6),
   last_update_sources |-> <<"RF">>]

track_payload(tr) ==
  [global_track_id |-> tr.track_id,
   status |-> IF num_unique_sensors(tr) >= 2 THEN "CONFIRMED" ELSE "TENTATIVE",
   kinematics |-> [range_m |-> Get(tr, "range_m", None),
                   az_deg |-> Get(tr, "az_deg", None),
                   el_deg |-> Get(tr, "el_deg", None),
                   radial_velocity_mps |-> Get(tr, "radial_velocity_mps", None)],
   classification |-> [label |-> "drone", conf_tenths |-> 7],
   supporting_sensors |->
     [i \in DOMAIN tr.supporting_sensors |-> tr.supporting_sensors[i].sensor],
   evidence |-> LastN(tr.evidence, 6),
   last_update_sources |-> <<"RF">>]

threat_payload(tr) ==
  LET r == Get(tr, "range_m", 0)
      closing == closing_speed(Get(tr, "radial_velocity_mps", 0))
  IN  [global_track_id |-> tr.track_id,
       threat_level |-> level_of(fuser_score(r, closing)),
       score |-> fuser_score(r, closing),
       tti_s |-> IF closing > 0 THEN tti_tenths(r, closing) ELSE None,
       rules_fired |-> <<"MULTI_SENSOR_CONFIRMED_2PLUS">>,
       reasons |-> fuser_reasons(r, closing),
       recommended_action |-> action_of(level_of(fuser_score(r, closing)))]

\* what an RF attachment to tr prints
\* An attachment that prints the assessment before the update.
rf_output_threat_first(tr, correlation_id) ==
  (IF num_unique_sensors(tr) >= 2
   THEN <<make_envelope("threat.assessment", correlation_id, threat_payload(tr))>>
   ELSE <<>>)
  \o <<make_envelope("track.update", correlation_id, track_payload(tr))>>

rf_output(tr, correlation_id) ==
  <<make_envelope("track.update", correlation_id, track_payload(tr))>>
  \o (IF num_unique_sensors(tr) >= 2
      THEN <<make_envelope("threat.assessment", correlation_id, threat_payload(tr))>>
      ELSE <<>>)

\* the position of the track an RF event attaches to, 0 when it is dropped:
\* no detection, no bearing in the first detection, no track within the gate
rf_target(ev) ==
  LET rf_dets == ev.payload.detections
  IN  IF rf_dets = <<>> THEN 0
      ELSE IF "bearing_deg" \notin DOMAIN rf_dets[1] THEN 0
      ELSE find_best_track_for_rf(fuser_tracks, rf_dets[1].bearing_deg)

is_event(line, types) == "event_type" \in DOMAIN line /\ line.event_type \in types

\* the next line of standard input is read by the running agent
FuserReads(line) ==
  /\ fuser_exc = "none"
  /\ Len(fuser_in) < MaxLines
  /\ fuser_in' = Append(fuser_in, line)
  /\ UNCHANGED <<bearing_gate_deg, copv, threatv, feed>>

\* a blank line is skipped
FuserBlank(line) ==
  /\ FuserReads(line)
  /\ is_blank(line)
  /\ UNCHANGED <<fuser_tracks, fuser_out, fuser_exc>>

\* json.loads raises: nothing catches it and main() ends
FuserRaises(line) ==
  /\ FuserReads(line)
  /\ loads_raises(line)
  /\ fuser_exc' = "JSONDecodeError"
  /\ UNCHANGED <<fuser_tracks, fuser_out>>

\* a radar event creates and refreshes tracks and prints nothing
FuserRadar(ev) ==
  /\ FuserReads(ev)
  /\ is_event(ev, {"sensor.detection.radar"})
  /\ fuser_tracks' = radar_dets(fuser_tracks, ev.payload.detections)
  /\ UNCHANGED <<fuser_out, fuser_exc>>

\* an RF event with no detection, no bearing or no track within the gate
FuserRfDrops(ev) ==
  /\ FuserReads(ev)
  /\ is_event(ev, {"sensor.detection.rf"})
  /\ rf_target(ev) = 0
  /\ UNCHANGED <<fuser_tracks, fuser_out, fuser_exc>>

\* an RF event attaches to the best track: track.update, and
\* threat.assessment when the track has two kinds of sensor
FuserRfAttaches(ev) ==
  /\ FuserReads(ev)
  /\ is_event(ev, {"sensor.detection.rf"})
  /\ rf_target(ev) # 0
  /\ fuser_tracks' = [fuser_tracks EXCEPT ![rf_target(ev)] = touch_sensor(@, "RF")]
  /\ fuser_out' = fuser_out \o rf_output(touch_sensor(fuser_tracks[rf_target(ev)], "RF"),
                                         Get(ev, "correlation_id", "unknown"))
  /\ UNCHANGED fuser_exc

\* any other event type is ignored
FuserIgnores(ev) ==
  /\ FuserReads(ev)
  /\ "event_type" \in DOMAIN ev
  /\ ~is_event(ev, {"sensor.detection.radar", "sensor.detection.rf"})
  /\ UNCHANGED <<fuser_tracks, fuser_out, fuser_exc>>

InitFusion ==
  /\ InitCop
  /\ InitThreat
  /\ feed = <<>>
  /\ \E gate \in BearingGates : StartsFuser(gate)

\* The fusion agent reading any lines of Lines, with either gate.
NextFuser ==
  \/ \E line \in Lines : FuserBlank(line)
  \/ \E line \in Lines : FuserRaises(line)
  \/ \E ev \in Lines : FuserRadar(ev)
  \/ \E ev \in Lines : FuserRfDrops(ev)
  \/ \E ev \in Lines : FuserRfAttaches(ev)
  \/ \E ev \in Lines : FuserIgnores(ev)

SpecFuser == InitFusion /\ [][NextFuser]_vars

\* ------------------------------------------------------------------------
\* The threat agent of src/agents/threat/threat_agent.py, and the two agents
\* on one sensor stream.  In SpecScore the stream `feed` is fixed at the
\* start and each agent reads it line by line at its own pace: a radar batch
\* of two detections drawn from a grid of ranges and radial velocities that
\* straddles every threshold of the scoring rules, then an RF detection on
\* the bearing of each.
\* ------------------------------------------------------------------------
score_and_assess_eager(range_m, radial_velocity_mps) ==
  LET closing == closing_speed(radial_velocity_mps)
      tti == closing > 0 /\ tti_under_60(range_m, closing)
      score == (IF closing >= 5 THEN 20 ELSE 0) + (IF tti THEN 40 ELSE 0)
               + (IF range_m < 500 THEN 30 ELSE 0)
  IN  [level |-> level_of(score),
       score |-> score,
       tti_s |-> IF closing > 0 THEN tti_tenths(range_m, closing) ELSE None,
       reasons |-> (IF closing >= 5 THEN <<"Approaching target">> ELSE <<>>)
                   \o (IF tti THEN <<"TTI < 60s">> ELSE <<>>)
                   \o (IF range_m < 500 THEN <<"Close range (<500m)">> ELSE <<>>)]

score_and_assess(range_m, radial_velocity_mps) ==
  LET closing == closing_speed(radial_velocity_mps)
      tti == closing > 0 /\ tti_under_60(range_m, closing)
      score == (IF closing > 5 THEN 20 ELSE 0) + (IF tti THEN 40 ELSE 0)
               + (IF range_m < 500 THEN 30 ELSE 0)
  IN  [level |-> level_of(score),
       score |-> score,
       tti_s |-> IF closing > 0 THEN tti_tenths(range_m, closing) ELSE None,
       reasons |-> (IF closing > 5 THEN <<"Approaching target">> ELSE <<>>)
                   \o (IF tti THEN <<"TTI < 60s">> ELSE <<>>)
                   \o (IF range_m < 500 THEN <<"Close range (<500m)">> ELSE <<>>)]

\* the threat.assessment the threat agent prints for one detection
assessment(det, correlation_id) ==
  LET a == score_and_assess(det.range_m, det.radial_velocity_mps)
  IN  [event_type |-> "threat.assessment", source |-> "threat-agent",
       correlation_id |-> correlation_id,
       payload |-> [global_track_id |-> Get(det, "local_track_id", "unknown"),
                    threat_level |-> a.level,
                    score |-> a.score,
                    tti_s |-> a.tti_s,
                    rules_fired |-> <<>>,
                    reasons |-> a.reasons,
                    recommended_action |-> action_of(a.level)]]

\* for det in detections: skipped without range or radial velocity
RECURSIVE assessments(_, _)
assessments(dets, correlation_id) ==
  IF dets = <<>> THEN <<>>
  ELSE (IF {"range_m", "radial_velocity_mps"} \subseteq DOMAIN Head(dets)
        THEN <<assessment(Head(dets), correlation_id)>> ELSE <<>>)
       \o assessments(Tail(dets), correlation_id)

\* the next line of the stream is read by the running threat agent
ThreatReads(line) ==
  /\ threat_exc = "none"
  /\ threat_in' = Append(threat_in, line)
  /\ UNCHANGED <<copv, fuserv, feed>>

ThreatBlank(line) ==
  /\ ThreatReads(line)
  /\ is_blank(line)
  /\ UNCHANGED <<threat_out, threat_exc>>

\* json.loads raises and main() ends
ThreatRaises(line) ==
  /\ ThreatReads(line)
  /\ loads_raises(line)
  /\ threat_exc' = "JSONDecodeError"
  /\ UNCHANGED threat_out

\* an event that is not a radar detection is skipped
ThreatSkips(ev) ==
  /\ ThreatReads(ev)
  /\ "event_type" \in DOMAIN ev
  /\ ~is_event(ev, {"sensor.detection.radar"})
  /\ UNCHANGED <<threat_out, threat_exc>>

\* a radar event: one assessment per detection with range and velocity
ThreatRadar(ev) ==
  /\ ThreatReads(ev)
  /\ is_event(ev, {"sensor.detection.radar"})
  /\ threat_out' = threat_out \o assessments(ev.payload.detections,
                                             Get(ev, "correlation_id", "unknown"))
  /\ UNCHANGED threat_exc

\* ranges and radial velocities on both sides of closing > 5, range < 500
\* and range / closing < 60
GridRanges == {0, 290, 300, 490, 500, 1190, 1200}
GridVelocities == {3, 0, -1, -5, -6, -20}

GridDet(r, v, az) == [range_m |-> r, az_deg |-> az, radial_velocity_mps |-> v]

ScoreFeeds ==
  {<<Radar("k1", <<GridDet(r1, v1, 0), GridDet(r2, v2, 40)>>),
     Rf("k5", <<[bearing_deg |-> 0, conf |-> 9]>>),
     Rf("k6", <<[bearing_deg |-> 40, conf |-> 9]>>)>> :
       r1 \in GridRanges, r2 \in GridRanges, v1 \in GridVelocities, v2 \in GridVelocities}
  \cup {<<Radar("k1", <<[range_m |-> 450, az_deg |-> 0],
                        [az_deg |-> 40, radial_velocity_mps |-> -6]>>),
          Rf("k5", <<[bearing_deg |-> 0, conf |-> 9]>>),
          Rf("k6", <<[bearing_deg |-> 40, conf |-> 9]>>)>>,
        <<[raw |-> ""],
          [event_type |-> "cop.track", correlation_id |-> "k9", payload |-> [id |-> "t1"]],
          [raw |-> "{\"event_type\": \"sensor.det"]>>}

InitScore == InitCop /\ InitFuser /\ InitThreat /\ feed \in ScoreFeeds

\* the line each agent reads next, if the stream has one
FuserNextLine == IF Len(fuser_in) < Len(feed) THEN {feed[Len(fuser_in) + 1]} ELSE {}
ThreatNextLine == IF Len(threat_in) < Len(feed) THEN {feed[Len(threat_in) + 1]} ELSE {}

\* The fusion agent and the threat agent on one sensor stream.
NextScore ==
  \/ \E line \in FuserNextLine : FuserBlank(line)
  \/ \E line \in FuserNextLine : FuserRaises(line)
  \/ \E ev \in FuserNextLine : FuserRadar(ev)
  \/ \E ev \in FuserNextLine : FuserRfDrops(ev)
  \/ \E ev \in FuserNextLine : FuserRfAttaches(ev)
  \/ \E ev \in FuserNextLine : FuserIgnores(ev)
  \/ \E line \in ThreatNextLine : ThreatBlank(line)
  \/ \E line \in ThreatNextLine : ThreatRaises(line)
  \/ \E ev \in ThreatNextLine : ThreatSkips(ev)
  \/ \E ev \in ThreatNextLine : ThreatRadar(ev)

SpecScore == InitScore /\ [][NextScore]_vars

\* ------------------------------------------------------------------------
\* Properties
\* ------------------------------------------------------------------------
\* the events produced by applying an ingested track or threat
IsIngestMsg(m) ==
  \/ m.event_type = "cop.threat"
  \/ m.event_type = "cop.track" /\ "last_update_ts" \in DOMAIN m.payload

\* the place in the broadcast log of the last cop.control of a pause, 0 if none
LastPauseAt(s) ==
  LET P == {k \in DOMAIN s : s[k].event_type = "cop.control" /\ s[k].payload.paused}
  IN  IF P = {} THEN 0 ELSE CHOOSE k \in P : \A j \in P : j <= k

\* the fields the server writes into a track on ingest
ServerKeys == {"id", "last_update_ts", "age_sec", "status"}

Rank(st) == CASE st = "LIVE" -> 0 [] st = "STALE" -> 1 [] st = "DEAD" -> 2

\* the status updates an aging tick has queued for the track tid
Notes(q, tid) == {i \in DOMAIN q : q[i].payload.id = tid}

\* C1: when a paused=false request that ended a pause returns, the events it
\* took from the pause buffer have been applied, in arrival order, as the
\* last events applied.
C1_ResumeReplaysBuffer ==
  [][\A r \in Reqs :
       (pc[r] = "relock" /\ pc'[r] = "idle") => IsSuffix(buffered[r], applied)]_vars

\* C2: the first message a websocket receives is a cop.snapshot.
C2_FirstMessageIsSnapshot ==
  \A c \in Clients : rx[c] # <<>> => rx[c][1] = "cop.snapshot"

\* C3: events are broadcast in the order in which their mutations were
\* committed under STATE_LOCK.
C3_BroadcastInCommitOrder ==
  \A i, j \in DOMAIN sent : i < j => sent[i].commit <= sent[j].commit

\* C4: an ingest served while paused leaves agents, tracks and threats as they
\* are, broadcasts nothing and queues nothing for broadcast; the event becomes
\* the last of the pause buffer and is recorded as cop.buffered in the tail.
C4_PausedIngestOnlyBuffers ==
  [][\A r \in Reqs, evt \in PauseEvents :
       (paused /\ ingest(r, evt)) =>
          /\ UNCHANGED <<agents, tracks, track_keys, threats>>
          /\ UNCHANGED <<sent, rx, todo, pc>>
          /\ buffer' # <<>>
          /\ buffer'[Len(buffer')] = evt
          /\ Len(buffer') = IF Len(buffer) < EVENTS_TAIL_MAX THEN Len(buffer) + 1
                            ELSE EVENTS_TAIL_MAX
          /\ events_tail' # <<>>
          /\ events_tail'[Len(events_tail')].event_type = "cop.buffered"
          /\ events_tail'[Len(events_tail')].payload = evt]_vars

C4_Witness ==
  /\ paused
  /\ buffer # <<>>
  /\ events_tail # <<>>
  /\ events_tail[Len(events_tail)].event_type = "cop.buffered"

\* C5: when a resume broadcasts its snapshot, that snapshot is the current
\* state with paused=false, the cop.control paused=false of the same resume
\* was broadcast before it, nothing committed after the resume has been
\* broadcast, and no ingested event has been broadcast since the pause began.
C5_ResumeBaselineFirst ==
  [][\A r \in Reqs :
       (op[r] = "resume" /\ pc[r] = "send" /\ pc'[r] = "relock") =>
          LET n == Len(sent')
              c == sent'[n].commit
          IN  /\ n >= 2
              /\ sent'[n] = snapshot_msg(agents, tracks, threats, FALSE, c)
              /\ \E i \in 1..(n - 1) : sent'[i] = control_msg(FALSE, c)
              /\ \A k \in 1..n : sent'[k].commit <= c
              /\ \A k \in (LastPauseAt(sent') + 1)..n : ~IsIngestMsg(sent'[k])]_vars

C5_Witness ==
  \E r \in Reqs :
    /\ op[r] = "resume"
    /\ pc[r] = "relock"
    /\ buffered[r] # <<>>
    /\ sent # <<>>
    /\ sent[Len(sent)].event_type = "cop.snapshot"

\* C6: a cop.track ingested while not paused leaves a record for its id made
\* of the previous record's fields overridden by the payload's, with
\* last_update_ts = now, age_sec = 0 and status = LIVE whatever the payload or
\* the previous record carried; the other tracks are left as they are.
C6_TrackIngestMerges ==
  [][\A r \in Reqs, evt \in IngestEvents :
       (/\ evt.event_type = "cop.track"
        /\ "id" \in DOMAIN evt.payload
        /\ ~paused
        /\ ingest(r, evt)) =>
          LET p == evt.payload
              old == Get(tracks, p.id, EmptyDict)
          IN  /\ p.id \in DOMAIN tracks'
              /\ DOMAIN tracks'[p.id] = (DOMAIN old) \cup (DOMAIN p) \cup ServerKeys
              /\ tracks'[p.id].id = p.id
              /\ tracks'[p.id].last_update_ts = now
              /\ tracks'[p.id].age_sec = 0
              /\ tracks'[p.id].status = "LIVE"
              /\ \A k \in (DOMAIN tracks'[p.id]) \ ServerKeys :
                   tracks'[p.id][k] = IF k \in DOMAIN p THEN p[k] ELSE old[k]
              /\ DOMAIN tracks' = (DOMAIN tracks) \cup {p.id}
              /\ \A tid \in (DOMAIN tracks) \ {p.id} : tracks'[tid] = tracks[tid]]_vars

C6_Witness ==
  /\ "t1" \in DOMAIN tracks
  /\ {"lat", "cls"} \subseteq DOMAIN tracks["t1"]
  /\ tracks["t1"].status = "LIVE"
  /\ tracks["t1"].age_sec = 0
  /\ tracks["t1"].last_update_ts = 20

\* C7: an aging tick that runs while not paused leaves every track that has a
\* last_update_ts with age = now - last_update_ts: removed (DEAD) if age >= 15,
\* else STALE with that age if age >= 5, else LIVE with that age.
C7_AgingComputesStatus ==
  [][AgingTick =>
       \A tid \in DOMAIN tracks :
         "last_update_ts" \in DOMAIN tracks[tid] =>
           LET age == now - tracks[tid].last_update_ts IN
             /\ age >= TTL_DEAD_SEC => tid \notin DOMAIN tracks'
             /\ (age >= TTL_LIVE_SEC /\ age < TTL_DEAD_SEC) =>
                  /\ tid \in DOMAIN tracks'
                  /\ tracks'[tid].status = "STALE"
                  /\ tracks'[tid].age_sec = age
             /\ age < TTL_LIVE_SEC =>
                  /\ tid \in DOMAIN tracks'
                  /\ tracks'[tid].status = "LIVE"
                  /\ tracks'[tid].age_sec = age]_vars

C7_Witness ==
  /\ "t1" \notin DOMAIN tracks
  /\ todo[AGING] # <<>>
  /\ todo[AGING][1].payload = [id |-> "t1", status |-> "DEAD", age_sec |-> 20]

\* C8, as stated: when an aging tick removes a track it computed DEAD, the one
\* DEAD notification of that tick for the track has already been broadcast.
C8_DeletedAfterNotification ==
  [][AgingTick =>
       \A tid \in DOMAIN tracks :
         (age_of(tracks[tid]) >= TTL_DEAD_SEC /\ tid \notin DOMAIN tracks') =>
            \E k \in DOMAIN sent' :
              /\ sent'[k].commit = commits'
              /\ sent'[k].payload =
                   [id |-> tid, status |-> "DEAD", age_sec |-> age_of(tracks[tid])]]_vars

\* C8, amended: an aging tick that computes DEAD for a track removes it within
\* the tick; if the track's status before the tick was not DEAD, exactly one
\* notification for it, with status DEAD, is queued and not yet broadcast when
\* the track is gone, and if it was DEAD already none is queued; after the tick
\* no track with status DEAD is in the store.
C8_DeadRemovedThenNotified ==
  [][AgingTick =>
       /\ \A tid \in DOMAIN tracks :
            age_of(tracks[tid]) >= TTL_DEAD_SEC =>
              /\ tid \notin DOMAIN tracks'
              /\ Cardinality(Notes(todo'[AGING], tid)) =
                   IF tracks[tid].status = "DEAD" THEN 0 ELSE 1
              /\ \A i \in Notes(todo'[AGING], tid) :
                   /\ todo'[AGING][i].payload.status = "DEAD"
                   /\ todo'[AGING][i] \notin Range(sent')
       /\ \A tid \in DOMAIN tracks' : tracks'[tid].status # "DEAD"]_vars

C8_Witness ==
  /\ pc[AGING] = "wait_hub"
  /\ "t2" \notin DOMAIN tracks
  /\ \E i \in DOMAIN todo[AGING] :
       /\ todo[AGING][i].payload.id = "t2"
       /\ todo[AGING][i].payload.status = "DEAD"
       /\ todo[AGING][i] \notin Range(sent)

\* C9: an aging tick queues a notification for a track if and only if the
\* status it computes differs from the status the track had before the tick;
\* there is at most one, and it carries the computed status.
C9_NotifyIffStatusChanges ==
  [][AgingTick =>
       \A tid \in DOMAIN tracks :
         LET computed == IF tid \in DOMAIN tracks' THEN tracks'[tid].status ELSE "DEAD"
             notes == Notes(todo'[AGING], tid)
         IN  /\ (notes # {}) <=> (computed # tracks[tid].status)
             /\ Cardinality(notes) <= 1
             /\ \A i \in notes :
                  /\ todo'[AGING][i].event_type = "cop.track"
                  /\ todo'[AGING][i].payload.status = computed]_vars

\* a track that was STALE at age 5 is STALE at age 10, and its only
\* notification is the one of age 5
C9_Witness ==
  /\ "t1" \in DOMAIN tracks
  /\ tracks["t1"].status = "STALE"
  /\ "age_sec" \in DOMAIN tracks["t1"]
  /\ tracks["t1"].age_sec = 10
  /\ todo[AGING] = <<>>
  /\ \E k \in DOMAIN sent :
       sent[k].payload = [id |-> "t1", status |-> "STALE", age_sec |-> 5]
  /\ \A k \in DOMAIN sent :
       sent[k].payload # [id |-> "t1", status |-> "STALE", age_sec |-> 10]

\* C10: a step that applies no ingested event never moves the status of a
\* track backwards in LIVE, STALE, DEAD.
C10_StatusOnlyMovesForward ==
  [][applied' = applied =>
       \A tid \in (DOMAIN tracks) \cap (DOMAIN tracks') :
         Rank(tracks'[tid].status) >= Rank(tracks[tid].status)]_vars

\* C11: while paused, a step that serves no request (an aging tick among
\* them) changes no track and removes none, queues no notification (the queue
\* of the aging loop only loses the update being broadcast), commits nothing
\* and leaves the aging loop asleep if it was.
C11_PausedTickIsNoOp ==
  [][(paused /\ ops' = ops /\ toggles' = toggles) =>
       /\ tracks' = tracks
       /\ track_keys' = track_keys
       /\ commits' = commits
       /\ \/ todo'[AGING] = todo[AGING]
          \/ todo[AGING] # <<>> /\ todo'[AGING] = Tail(todo[AGING])
       /\ pc[AGING] = "sleep" => pc'[AGING] = "sleep"]_vars

\* paused, the loop about to tick, and a track the tick would have removed
C11_Witness ==
  /\ paused
  /\ pc[AGING] = "sleep"
  /\ state_lock = FREE
  /\ "t1" \in DOMAIN tracks
  /\ tracks["t1"].status = "LIVE"
  /\ tracks["t1"].age_sec = 0
  /\ now - tracks["t1"].last_update_ts >= TTL_DEAD_SEC

\* the place in the broadcast log of the last cop.track of an ingest for tid,
\* 0 if none
LastIngestAt(s, tid) ==
  LET P == {k \in DOMAIN s : /\ s[k].event_type = "cop.track"
                             /\ "last_update_ts" \in DOMAIN s[k].payload
                             /\ s[k].payload.id = tid}
  IN  IF P = {} THEN 0 ELSE CHOOSE k \in P : \A j \in P : j <= k

\* the pauses announced so far
PausesAt(s) ==
  {k \in DOMAIN s : s[k].event_type = "cop.control" /\ s[k].payload.paused}

\* C12: at a tick after the only pause so far, a track whose last update came
\* before that pause has the age now - last_update_ts less the time paused,
\* and the status of that age.
C12_PauseNotCountedInAge ==
  [][AgingTick =>
       \A tid \in DOMAIN tracks :
         (/\ Cardinality(PausesAt(sent)) = 1
          /\ LastIngestAt(sent, tid) > 0
          /\ LastIngestAt(sent, tid) < LastPauseAt(sent)) =>
            LET age == now - tracks[tid].last_update_ts - pause_accum_sec IN
              /\ age < TTL_DEAD_SEC => tid \in DOMAIN tracks'
              /\ tid \in DOMAIN tracks' =>
                   /\ tracks'[tid].age_sec = age
                   /\ age < TTL_LIVE_SEC => tracks'[tid].status = "LIVE"]_vars

\* C13: a step that sets the paused flag leaves its handler, still holding
\* STATE_LOCK, with exactly two events to broadcast: cop.control paused=true,
\* then a cop.snapshot of the state showing paused=true.
C13_PauseAnnounced ==
  [][(~paused /\ paused') =>
       \E r \in Reqs :
         /\ state_lock' = r
         /\ todo'[r] = <<control_msg(TRUE, commits'),
                         snapshot_msg(agents', tracks', threats', TRUE, commits')>>]_vars

\* C14: the pause buffer never holds more than EVENTS_TAIL_MAX events; an
\* ingest while paused appends its event, and when the buffer is full the
\* oldest event is dropped and the others keep their order.
C14_BufferBounded ==
  [][/\ Len(buffer') <= EVENTS_TAIL_MAX
     /\ \A r \in Reqs, evt \in PauseEvents :
          IngestFlood(r, evt) =>
            buffer' = IF Len(buffer) < EVENTS_TAIL_MAX THEN Append(buffer, evt)
                      ELSE Append(Tail(buffer), evt)]_vars

\* more events ingested during the pause than the buffer holds
C14_Witness ==
  /\ paused
  /\ ops > EVENTS_TAIL_MAX
  /\ Len(buffer) = EVENTS_TAIL_MAX
  /\ buffer[1] # buffer[Len(buffer)]

\* C15: a broadcast removes from the registry the registered sockets whose
\* send fails and sends them nothing, sends the event once to every other
\* registered socket and keeps it registered, and the task that broadcasts
\* goes on with what it had left to emit; a socket whose sends fail receives
\* nothing in any step and, once removed, is never registered again.
C15_SendFailureDropsSubscriber ==
  [][/\ sent' # sent =>
          LET m == sent'[Len(sent')] IN
            /\ sent' = Append(sent, m)
            /\ \A c \in Clients :
                 /\ (c \in clients /\ c \in broken) =>
                      (c \notin clients' /\ rx'[c] = rx[c])
                 /\ (c \in clients /\ c \notin broken) =>
                      (c \in clients' /\ rx'[c] = Append(rx[c], m.event_type))
                 /\ c \notin clients => (c \notin clients' /\ rx'[c] = rx[c])
            /\ \E t \in Tasks :
                 /\ pc[t] = "send"
                 /\ m = Head(todo[t])
                 /\ todo' = [todo EXCEPT ![t] = Tail(todo[t])]
                 /\ pc'[t] = IF todo'[t] # <<>> THEN "wait_hub" ELSE "idle"
                 /\ hub_lock' = FREE
     /\ \A c \in broken :
          /\ rx'[c] = rx[c]
          /\ (c \notin clients /\ cpc[c] # "new") => c \notin clients']_vars

\* c1 lost its connection and a broadcast removed it, c2 got the event, the
\* request that broadcast has returned
C15_Witness ==
  /\ "c1" \in broken
  /\ cpc["c1"] = "open"
  /\ "c1" \notin clients
  /\ "c2" \in clients
  /\ Len(rx["c2"]) > Len(rx["c1"])
  /\ rx["c1"] # <<>>
  /\ \A r \in Reqs : pc[r] = "idle"
  /\ applied # <<>>

\* the snapshot a reset broadcasts: empty maps, not paused
IsResetSnapshot(m) ==
  /\ m.event_type = "cop.snapshot"
  /\ DOMAIN m.payload.agents = {}
  /\ DOMAIN m.payload.tracks = {}
  /\ DOMAIN m.payload.threats = {}
  /\ ~m.payload.paused

\* C16: the snapshot of a reset is not followed, in the broadcasts nor in the
\* history (events_tail), by an event committed before the reset.  (Without
\* pause requests only a reset produces an empty snapshot that is not paused.)
C16_NothingOlderAfterReset ==
  /\ \A i, j \in DOMAIN sent :
       (i < j /\ IsResetSnapshot(sent[i])) => sent[j].commit > sent[i].commit
  /\ \A i, j \in DOMAIN events_tail :
       (i < j /\ IsResetSnapshot(events_tail[i])) =>
          events_tail[j].commit > events_tail[i].commit

\* C17: in the standalone server every registered websocket whose
\* connection holds has received something, the first message a websocket
\* receives is a cop.snapshot, and STATE_LOCK is free whenever another task
\* can run.
C17_SrvFirstMessageIsSnapshot ==
  /\ state_lock = FREE
  /\ \A c \in Clients :
       /\ (c \in clients /\ c \notin broken) => rx[c] # <<>>
       /\ rx[c] # <<>> => rx[c][1] = "cop.snapshot"

\* a websocket connected between the commit of an ingest and its broadcast:
\* the snapshot first, then the event
C17_Witness ==
  /\ rx["c1"] = <<"cop.snapshot", "cop.track">>
  /\ Len(sent) = 1
  /\ "c1" \in clients

\* the status of a stored track is the one its age_sec implies, and not DEAD
TrackConsistent(tr) ==
  /\ "status" \in DOMAIN tr
  /\ "age_sec" \in DOMAIN tr
  /\ tr.status = compute_status(tr.age_sec)
  /\ tr.status # "DEAD"

\* no cop.snapshot ingest has overwritten the store
NoSnapshotApplied == \A i \in DOMAIN applied : applied[i].event_type # "cop.snapshot"

SameButTime(a, b) ==
  \A k \in ((DOMAIN a) \cup (DOMAIN b)) \ {"last_update_ts", "age_sec"} :
    k \in DOMAIN a /\ k \in DOMAIN b /\ a[k] = b[k]

\* C19: when a cop.track event is applied while not paused and the event
\* applied just before it was the same event, whose track is still stored as
\* that ingest left it (LIVE, age 0), the second ingest changes nothing in
\* agents, threats and tracks but the track's last_update_ts and age_sec.
C19_TrackIngestIdempotent ==
  [][ (/\ applied # <<>>
       /\ applied' = Append(applied, applied[Len(applied)])
       /\ applied[Len(applied)].event_type = "cop.track"
       /\ ~paused
       /\ applied[Len(applied)].payload.id \in DOMAIN tracks
       /\ "age_sec" \in DOMAIN tracks[applied[Len(applied)].payload.id]
       /\ tracks[applied[Len(applied)].payload.id].status = "LIVE"
       /\ tracks[applied[Len(applied)].payload.id].age_sec = 0)
      => /\ agents' = agents
         /\ threats' = threats
         /\ track_keys' = track_keys
         /\ DOMAIN tracks' = DOMAIN tracks
         /\ \A tid \in DOMAIN tracks :
              IF tid = applied[Len(applied)].payload.id
              THEN SameButTime(tracks[tid], tracks'[tid])
              ELSE tracks'[tid] = tracks[tid] ]_vars

\* the same cop.track event applied twice in a row, the track stored once
C19_Witness ==
  /\ Len(applied) = 2
  /\ applied[1].event_type = "cop.track"
  /\ applied[2].event_type = "cop.track"
  /\ applied[1].payload = applied[2].payload
  /\ track_keys = <<applied[1].payload.id>>
  /\ tracks[applied[1].payload.id].last_update_ts = now
  /\ now > 5

\* C20: an ingest of a cop.track or cop.threat whose payload has no id,
\* whether or not the server is paused, leaves tracks, threats, agents, the
\* event history and the pause buffer unchanged and queues nothing for
\* broadcast.
C20_InvalidIngestChangesNothing ==
  [][ \A r \in Reqs, evt \in IngestEvents :
        (apply_raises(evt) /\ ingest(r, evt))
          => UNCHANGED <<store, events_tail, buffer, todo, sent>> ]_vars

\* the event applied by this step, when the step applies one
LastApplied == applied[Len(applied)]

\* C21: a step that applies a cop.snapshot (the server is not paused) sets
\* each of agents, tracks and threats that the payload includes to the
\* payload's map and leaves the others as they were, records a snapshot of
\* the resulting state in the history and queues it, alone, for broadcast.
C21_SnapshotOverwrites ==
  [][ (Len(applied') = Len(applied) + 1 /\ LastApplied'.event_type = "cop.snapshot")
      => /\ ~paused
         /\ agents' = IF "agents" \in DOMAIN LastApplied'.payload
                      THEN LastApplied'.payload.agents ELSE agents
         /\ tracks' = IF "tracks" \in DOMAIN LastApplied'.payload
                      THEN LastApplied'.payload.tracks ELSE tracks
         /\ threats' = IF "threats" \in DOMAIN LastApplied'.payload
                       THEN LastApplied'.payload.threats ELSE threats
         /\ \E r \in Reqs :
              /\ todo'[r] = <<snapshot_msg(agents', tracks', threats', paused', commits')>>
              /\ events_tail' = push_tail(events_tail, todo'[r][1]) ]_vars

\* a snapshot naming t1 alone applied over a store that held t1 and t2 (no
\* time has passed, so no tick removed t2), and its broadcast delivered
C21_Witness ==
  /\ Len(applied) = 2
  /\ applied[1].event_type = "cop.snapshot"
  /\ applied[2].event_type = "cop.snapshot"
  /\ "tracks" \in DOMAIN applied[1].payload
  /\ "t2" \in DOMAIN applied[1].payload.tracks
  /\ "agents" \in DOMAIN applied[2].payload
  /\ now = 0
  /\ tracks = applied[2].payload.tracks
  /\ DOMAIN tracks = {"t1"}
  /\ DOMAIN agents = {"a1"}
  /\ Len(sent) = 2
  /\ sent[2].payload.tracks = tracks

\* the event types the COP backend handles itself
HandledTypes == {"cop.track", "cop.threat", "cop.snapshot"}

\* C22: a step that applies an event whose type is none of cop.track,
\* cop.threat and cop.snapshot leaves agents, tracks and threats unchanged,
\* and records in the history and queues for broadcast one message with the
\* event's event_type and payload as they were ingested.
C22_UnknownEventPassedThrough ==
  [][ (Len(applied') = Len(applied) + 1 /\ LastApplied'.event_type \notin HandledTypes)
      => /\ UNCHANGED store
         /\ \E r \in Reqs :
              todo'[r] = <<Msg(LastApplied'.event_type, LastApplied'.payload, commits')>>
         /\ events_tail'[Len(events_tail')] =
              Msg(LastApplied'.event_type, LastApplied'.payload, commits') ]_vars

\* the line read by this step of the fusion agent
LastLine == fuser_in[Len(fuser_in)]

\* the angle between two directions, the short way round the circle
AngularDistance(a, b) == Min((a - b) % 360, 360 - ((a - b) % 360))

\* some track lies within the gate of the bearing
WithinGate(bearing) ==
  \E i \in DOMAIN fuser_tracks :
    AngularDistance(fuser_tracks[i].az_deg, bearing) <= bearing_gate_deg

\* this step printed a track.update first, and touched some track
Associates ==
  /\ Len(fuser_out') > Len(fuser_out)
  /\ SubSeq(fuser_out', 1, Len(fuser_out)) = fuser_out
  /\ fuser_out'[Len(fuser_out) + 1].event_type = "track.update"
  /\ fuser_tracks' # fuser_tracks

\* C23: a step that reads an RF event whose first detection has a bearing
\* associates it (a track gains the RF hit and a track.update is printed)
\* if and only if some existing track's azimuth is within the bearing gate
\* of it, measured the short way round; otherwise nothing is printed and no
\* track changes.
C23_RfAssociatesIffWithinGate ==
  [][ (/\ Len(fuser_in') = Len(fuser_in) + 1
       /\ is_event(LastLine', {"sensor.detection.rf"})
       /\ LastLine'.payload.detections # <<>>
       /\ "bearing_deg" \in DOMAIN LastLine'.payload.detections[1])
      => IF WithinGate(LastLine'.payload.detections[1].bearing_deg)
         THEN Associates
         ELSE UNCHANGED <<fuser_tracks, fuser_out>> ]_vars

\* one track at azimuth 0, gate 12, and a bearing of 10 has been associated
C23_Witness ==
  /\ bearing_gate_deg = 12
  /\ Len(fuser_tracks) = 1
  /\ fuser_tracks[1].az_deg = 0
  /\ Len(fuser_in) = 2
  /\ is_event(LastLine, {"sensor.detection.rf"})
  /\ LastLine.payload.detections = <<[bearing_deg |-> 10, conf |-> 9]>>
  /\ Len(fuser_out) = 2
  /\ fuser_out[1].event_type = "track.update"
  /\ num_unique_sensors(fuser_tracks[1]) = 2

\* the sensor kinds a track has evidence from
Kinds(tr) == {tr.supporting_sensors[i].sensor : i \in DOMAIN tr.supporting_sensors}

\* the track.update reports printed so far
Reports == {k \in DOMAIN fuser_out : fuser_out[k].event_type = "track.update"}

\* C24: every track.update printed says CONFIRMED exactly when the sensors
\* it lists are of two kinds or more and TENTATIVE otherwise, and no track
\* with evidence from fewer than two kinds has ever been reported CONFIRMED.
C24_ConfirmedIffTwoKinds ==
  /\ \A k \in Reports :
       LET p == fuser_out[k].payload
       IN  p.status = IF Cardinality(Range(p.supporting_sensors)) >= 2
                      THEN "CONFIRMED" ELSE "TENTATIVE"
  /\ \A i \in DOMAIN fuser_tracks :
       Cardinality(Kinds(fuser_tracks[i])) < 2
         => \A k \in Reports :
              fuser_out[k].payload.global_track_id = fuser_tracks[i].track_id
                => fuser_out[k].payload.status # "CONFIRMED"

\* a track refreshed twice by radar, with no report, then attached by RF
\* and reported CONFIRMED
C24_Witness ==
  /\ Len(fuser_tracks) = 1
  /\ fuser_tracks[1].supporting_sensors =
       <<[sensor |-> "RADAR", n |-> 2], [sensor |-> "RF", n |-> 1]>>
  /\ Reports = {1}
  /\ fuser_out[1].payload.status = "CONFIRMED"
  /\ fuser_out[1].payload.supporting_sensors = <<"RADAR", "RF">>

\* what this step printed
Printed == SubSeq(fuser_out', Len(fuser_out) + 1, Len(fuser_out'))

\* C25: a step in which an RF event attaches to a track that then has two
\* kinds of sensor prints exactly a track.update followed by a
\* threat.assessment, both for that track and with the event's correlation
\* id, the assessment tagged MULTI_SENSOR_CONFIRMED_2PLUS; a step that reads
\* a radar event or an RF event that attaches to no track prints nothing.
C25_ConfirmationEmitsUpdateThenThreat ==
  [][ Len(fuser_in') = Len(fuser_in) + 1
      => /\ SubSeq(fuser_out', 1, Len(fuser_out)) = fuser_out
         /\ IF is_event(LastLine', {"sensor.detection.rf"}) /\ fuser_tracks' # fuser_tracks
            THEN \E i \in DOMAIN fuser_tracks :
                   /\ fuser_tracks'[i] # fuser_tracks[i]
                   /\ Cardinality(Kinds(fuser_tracks'[i])) >= 2
                        => /\ Len(Printed) = 2
                           /\ Printed[1].event_type = "track.update"
                           /\ Printed[2].event_type = "threat.assessment"
                           /\ Printed[1].payload.global_track_id = fuser_tracks[i].track_id
                           /\ Printed[2].payload.global_track_id = fuser_tracks[i].track_id
                           /\ Printed[1].correlation_id = Printed[2].correlation_id
                           /\ Printed[2].correlation_id
                                = Get(LastLine', "correlation_id", "unknown")
                           /\ Printed[2].payload.rules_fired
                                = <<"MULTI_SENSOR_CONFIRMED_2PLUS">>
            ELSE Printed = <<>> ]_vars

\* two RF events attached to the same radar track: update, assessment,
\* update, assessment
C25_Witness ==
  /\ Len(fuser_in) = 3
  /\ Len(fuser_tracks) = 1
  /\ Len(fuser_out) = 4
  /\ fuser_out[3].event_type = "track.update"
  /\ fuser_out[4].event_type = "threat.assessment"
  /\ fuser_out[4].correlation_id = "unknown"
  /\ fuser_out[4].payload.score = 100

\* the places <<line, position>> of the radar detections read so far that
\* have both a range and an azimuth
RadarHits ==
  UNION {{<<k, j>> : j \in {j \in DOMAIN fuser_in[k].payload.detections :
                              {"range_m", "az_deg"}
                                \subseteq DOMAIN fuser_in[k].payload.detections[j]}}
         : k \in {k \in DOMAIN fuser_in :
                    is_event(fuser_in[k], {"sensor.detection.radar"})}}

DetAt(h) == fuser_in[h[1]].payload.detections[h[2]]

\* same 100 m bin of range and same 10 degree bin of azimuth
SameBucket(d, e) ==
  /\ d.range_m \div 100 = e.range_m \div 100
  /\ d.az_deg \div 10 = e.az_deg \div 10

\* the RADAR hits a track has counted
RadarCount(tr) ==
  LET hit == {i \in DOMAIN tr.supporting_sensors : tr.supporting_sensors[i].sensor = "RADAR"}
  IN  IF hit = {} THEN 0 ELSE tr.supporting_sensors[CHOOSE i \in hit : TRUE].n

\* C26: every radar detection read so far lies in the bucket of exactly one
\* track, and each track has counted exactly the detections of its own
\* bucket: detections of one bucket went to one track whatever was read in
\* between, and detections of different buckets to different tracks.
C26_TrackIdentityIsBucket ==
  /\ \A h \in RadarHits :
       Cardinality({i \in DOMAIN fuser_tracks : SameBucket(DetAt(h), fuser_tracks[i])}) = 1
  /\ \A i \in DOMAIN fuser_tracks :
       RadarCount(fuser_tracks[i])
         = Cardinality({h \in RadarHits : SameBucket(DetAt(h), fuser_tracks[i])})

\* two detections of one bucket with a detection of another bucket read in
\* between: two tracks, the first refreshed twice
C26_Witness ==
  /\ Len(fuser_in) = 3
  /\ Len(fuser_tracks) = 2
  /\ RadarCount(fuser_tracks[1]) = 2
  /\ RadarCount(fuser_tracks[2]) = 1
  /\ fuser_tracks[1].range_m = 420
  /\ fuser_tracks[2].az_deg = 20

\* a radar detection without range or azimuth
IncompleteDet(det) == {"range_m", "az_deg"} \ (DOMAIN det) # {}

\* a line the engine is to drop: not JSON, a radar event whose detections
\* all lack range or azimuth, an RF event with no detection or no bearing
Unusable(line) ==
  \/ loads_raises(line)
  \/ /\ is_event(line, {"sensor.detection.radar"})
     /\ \A j \in DOMAIN line.payload.detections : IncompleteDet(line.payload.detections[j])
  \/ /\ is_event(line, {"sensor.detection.rf"})
     /\ \/ line.payload.detections = <<>>
        \/ "bearing_deg" \notin DOMAIN line.payload.detections[1]

\* C27: a step that reads an unusable line prints nothing, leaves the track
\* table unchanged and leaves the engine running, ready for the next line.
C27_UnusableLineIsDropped ==
  [][ (Len(fuser_in') = Len(fuser_in) + 1 /\ Unusable(LastLine'))
      => /\ UNCHANGED <<fuser_tracks, fuser_out>>
         /\ fuser_exc' = "none" ]_vars

\* the line read by this step of the threat agent, and what the step printed
LastThreatLine == threat_in[Len(threat_in)]
Assessed == SubSeq(threat_out', Len(threat_out) + 1, Len(threat_out'))

\* the detections of a radar event that have a range and a radial velocity
Scorable(ev) ==
  SelectSeq(ev.payload.detections,
            LAMBDA d : {"range_m", "radial_velocity_mps"} \subseteq DOMAIN d)

\* the three rules of the base score: closing speed over 5 m/s, time to
\* intercept under 60 s, range under 500 m
RuleSum(range_m, closing) ==
  (IF closing > 5 THEN 20 ELSE 0)
  + (IF closing > 0 /\ range_m < 60 * closing THEN 40 ELSE 0)
  + (IF range_m < 500 THEN 30 ELSE 0)

\* C28: a step in which the threat agent reads a radar event prints one
\* assessment per detection that has range and radial velocity, whose score
\* is the sum of the three rules for that detection and lies in 0..100,
\* whose level is HIGH iff score >= 80, MEDIUM iff 50 <= score < 80 and LOW
\* otherwise, and whose action is ALERT iff the level is HIGH or MEDIUM and
\* OBSERVE iff it is LOW.
C28_BaseScoreLevelAction ==
  [][ (Len(threat_in') = Len(threat_in) + 1
       /\ is_event(LastThreatLine', {"sensor.detection.radar"}))
      => /\ SubSeq(threat_out', 1, Len(threat_out)) = threat_out
         /\ Len(Assessed) = Len(Scorable(LastThreatLine'))
         /\ \A j \in DOMAIN Assessed :
              LET d == Scorable(LastThreatLine')[j]
                  p == Assessed[j].payload
              IN  /\ p.score = RuleSum(d.range_m,
                                       IF d.radial_velocity_mps < 0
                                       THEN 0 - d.radial_velocity_mps ELSE 0)
                  /\ p.score \in 0..100
                  /\ (p.threat_level = "HIGH") <=> (p.score >= 80)
                  /\ (p.threat_level = "MEDIUM") <=> (p.score >= 50 /\ p.score < 80)
                  /\ (p.threat_level = "LOW") <=> (p.score < 50)
                  /\ (p.recommended_action = "ALERT")
                       <=> (p.threat_level \in {"HIGH", "MEDIUM"})
                  /\ (p.recommended_action = "OBSERVE") <=> (p.threat_level = "LOW") ]_vars

\* a batch of two detections assessed: all three rules fire for the first
\* (HIGH, ALERT), the first two for the second (MEDIUM, ALERT)
C28_Witness ==
  /\ Len(threat_out) = 2
  /\ threat_out[1].payload.score = 90
  /\ threat_out[1].payload.threat_level = "HIGH"
  /\ threat_out[1].payload.recommended_action = "ALERT"
  /\ threat_out[2].payload.score = 60
  /\ threat_out[2].payload.threat_level = "MEDIUM"
  /\ threat_out[2].payload.recommended_action = "ALERT"

\* the scorable detections of the radar events among lines, in order
RECURSIVE scored_dets(_)
scored_dets(lines) ==
  IF lines = <<>> THEN <<>>
  ELSE (IF is_event(Head(lines), {"sensor.detection.radar"})
        THEN Scorable(Head(lines)) ELSE <<>>)
       \o scored_dets(Tail(lines))

ClosingOf(vr) == IF vr < 0 THEN 0 - vr ELSE 0

\* (range, closing speed, score) of every assessment the threat agent has
\* printed: the j-th assessment scores the j-th scorable detection read
BaseSamples ==
  {[range_m |-> scored_dets(threat_in)[j].range_m,
    closing |-> ClosingOf(scored_dets(threat_in)[j].radial_velocity_mps),
    score |-> threat_out[j].payload.score] : j \in DOMAIN threat_out}

\* the same for every boosted assessment of the fusion agent, whose inputs
\* are the kinematics of the track.update printed just before it
BoostedSamples ==
  {[range_m |-> fuser_out[i - 1].payload.kinematics.range_m,
    closing |-> ClosingOf(fuser_out[i - 1].payload.kinematics.radial_velocity_mps),
    score |-> fuser_out[i].payload.score] :
     i \in {k \in DOMAIN fuser_out : fuser_out[k].event_type = "threat.assessment"}}

Monotone(samples) ==
  \A a, b \in samples :
    /\ (a.range_m = b.range_m /\ a.closing <= b.closing) => a.score <= b.score
    /\ (a.closing = b.closing /\ a.range_m <= b.range_m) => a.score >= b.score

\* C29: among the assessments of the threat agent, and among the boosted
\* assessments of the fusion agent, at equal range a larger closing speed
\* never has a smaller score, and at equal closing speed a larger range
\* never has a larger score.
C29_ScoreMonotone == Monotone(BaseSamples) /\ Monotone(BoostedSamples)

\* both agents have scored two targets at the same range, and the faster
\* closing one scored strictly higher in each
C29_Witness ==
  /\ \E a, b \in BaseSamples :
       a.range_m = b.range_m /\ a.closing < b.closing /\ a.score < b.score
  /\ \E a, b \in BoostedSamples :
       a.range_m = b.range_m /\ a.closing < b.closing /\ a.score < b.score

\* C30: no send to a subscriber takes place while the state lock is held:
\* every step that completes a broadcast starts in a state where STATE_LOCK
\* is free.
C30_NoSendUnderStateLock == [][sent' # sent => state_lock = FREE]_vars

\* the places in the broadcast log of the snapshots of a pause, and whether a
\* resume was announced between two places
PauseSnapshotsAt(s) ==
  {k \in DOMAIN s : s[k].event_type = "cop.snapshot" /\ s[k].payload.paused}

ResumedBetween(s, i, j) ==
  \E k \in (i + 1)..(j - 1) : s[k].event_type = "cop.control" /\ ~s[k].payload.paused

\* C31: after the snapshot of a pause has been broadcast and until the resume
\* is announced, only cop.control and cop.snapshot events are broadcast.
C31_FrozenOnPauseSnapshot ==
  \A i \in PauseSnapshotsAt(sent) : \A j \in DOMAIN sent :
    (i < j /\ ~ResumedBetween(sent, i, j)) =>
       sent[j].event_type \in {"cop.control", "cop.snapshot"}

\* C32: two detections with the same range whose azimuths differ by a
\* multiple of 360 degrees are one track: no two tracks of the fusion agent
\* hold the same range and azimuths that are the same direction.
C32_AzimuthWrappedBeforeBinning ==
  \A i, j \in DOMAIN fuser_tracks :
    (/\ fuser_tracks[i].range_m = fuser_tracks[j].range_m
     /\ (fuser_tracks[i].az_deg - fuser_tracks[j].az_deg) % 360 = 0) => i = j

\* the bearing of the detection of an RF event with the highest confidence
StrongestBearing(dets) ==
  LET top == CHOOSE i \in DOMAIN dets :
               \A k \in DOMAIN dets : Get(dets[k], "conf", 0) <= Get(dets[i], "conf", 0)
  IN  dets[top].bearing_deg

\* C33: a step that reads an RF event with several detections, each with a
\* bearing, associates it if and only if some track is within the gate of the
\* bearing of the detection with the highest confidence.
C33_StrongestDetectionUsed ==
  [][ (/\ Len(fuser_in') = Len(fuser_in) + 1
       /\ is_event(LastLine', {"sensor.detection.rf"})
       /\ Len(LastLine'.payload.detections) > 1
       /\ \A k \in DOMAIN LastLine'.payload.detections :
            "bearing_deg" \in DOMAIN LastLine'.payload.detections[k])
      => IF WithinGate(StrongestBearing(LastLine'.payload.detections))
         THEN Associates
         ELSE UNCHANGED <<fuser_tracks, fuser_out>> ]_vars

\* the number of RF hits a track has
RfCount(tr) ==
  LET hit == {i \in DOMAIN tr.supporting_sensors : tr.supporting_sensors[i].sensor = "RF"}
  IN  IF hit = {} THEN 0 ELSE tr.supporting_sensors[CHOOSE i \in hit : TRUE].n

\* the tracks at the least angular distance from a bearing, and the one of
\* them created first
Closest(bearing) ==
  {i \in DOMAIN fuser_tracks :
     \A j \in DOMAIN fuser_tracks :
       AngularDistance(fuser_tracks[i].az_deg, bearing)
         <= AngularDistance(fuser_tracks[j].az_deg, bearing)}

Chosen(bearing) == CHOOSE i \in Closest(bearing) : \A j \in Closest(bearing) : i <= j

\* C34: a step that reads an RF event whose bearing is within the gate of
\* some track adds one RF hit to the track at the least angular distance
\* from the bearing, the earliest created of them when several are equally
\* close, reports that track, and changes no other track.
C34_ClosestThenEarliestTrack ==
  [][ (/\ Len(fuser_in') = Len(fuser_in) + 1
       /\ is_event(LastLine', {"sensor.detection.rf"})
       /\ LastLine'.payload.detections # <<>>
       /\ "bearing_deg" \in DOMAIN LastLine'.payload.detections[1]
       /\ WithinGate(LastLine'.payload.detections[1].bearing_deg))
      => LET c == Chosen(LastLine'.payload.detections[1].bearing_deg)
         IN  /\ DOMAIN fuser_tracks' = DOMAIN fuser_tracks
             /\ RfCount(fuser_tracks'[c]) = RfCount(fuser_tracks[c]) + 1
             /\ \A i \in DOMAIN fuser_tracks : i # c => fuser_tracks'[i] = fuser_tracks[i]
             /\ Printed # <<>>
             /\ Printed[1].payload.global_track_id = fuser_tracks[c].track_id ]_vars

\* tracks at azimuths 20 and 0, created in that order, and a bearing of 10
\* between them: the first one has the RF hit, the second has none
C34_Witness ==
  /\ bearing_gate_deg = 12
  /\ Len(fuser_tracks) = 2
  /\ fuser_tracks[1].az_deg = 20
  /\ fuser_tracks[2].az_deg = 0
  /\ Len(fuser_in) = 3
  /\ is_event(LastLine, {"sensor.detection.rf"})
  /\ LastLine.payload.detections = <<[bearing_deg |-> 10, conf |-> 9]>>
  /\ RfCount(fuser_tracks[1]) = 1
  /\ RfCount(fuser_tracks[2]) = 0

\* the assessments of the threat agent with the inputs they scored, and the
\* boosted assessments of the fusion agent with the kinematics reported just
\* before them
BaseAssessments ==
  {[range_m |-> scored_dets(threat_in)[j].range_m,
    radial_velocity_mps |-> scored_dets(threat_in)[j].radial_velocity_mps,
    payload |-> threat_out[j].payload] : j \in DOMAIN threat_out}

BoostedAssessments ==
  {[range_m |-> fuser_out[i - 1].payload.kinematics.range_m,
    radial_velocity_mps |-> fuser_out[i - 1].payload.kinematics.radial_velocity_mps,
    payload |-> fuser_out[i].payload] :
     i \in {k \in DOMAIN fuser_out : fuser_out[k].event_type = "threat.assessment"}}

\* C35: whenever the fusion agent and the threat agent have assessed the same
\* range and radial velocity, the fusion agent's score is the threat agent's
\* score plus 20, at most 100, and its level and action follow from that
\* score: HIGH at 80 and above, MEDIUM at 50 and above, LOW below; ALERT for
\* HIGH and MEDIUM, OBSERVE for LOW.
C35_BoostedIsBasePlus20Clamped ==
  \A f \in BoostedAssessments : \A b \in BaseAssessments :
    (f.range_m = b.range_m /\ f.radial_velocity_mps = b.radial_velocity_mps)
      => /\ f.payload.score = Min(100, b.payload.score + 20)
         /\ f.payload.threat_level =
              (IF f.payload.score >= 80 THEN "HIGH"
               ELSE IF f.payload.score >= 50 THEN "MEDIUM" ELSE "LOW")
         /\ f.payload.recommended_action =
              (IF f.payload.threat_level = "LOW" THEN "OBSERVE" ELSE "ALERT")

\* both agents have assessed two targets: one scored 90 by the threat agent
\* and 100 by the fusion agent, one scored 30 (LOW) and 50 (MEDIUM, ALERT)
C35_Witness ==
  /\ \E f \in BoostedAssessments : \E b \in BaseAssessments :
       /\ f.range_m = b.range_m /\ f.radial_velocity_mps = b.radial_velocity_mps
       /\ b.payload.score = 90 /\ f.payload.score = 100
  /\ \E f \in BoostedAssessments : \E b \in BaseAssessments :
       /\ f.range_m = b.range_m /\ f.radial_velocity_mps = b.radial_velocity_mps
       /\ b.payload.score = 30 /\ b.payload.threat_level = "LOW"
       /\ f.payload.score = 50 /\ f.payload.threat_level = "MEDIUM"
       /\ f.payload.recommended_action = "ALERT"

\* no request is being served and no more will arrive
Quiet == ops = MaxOps /\ \A r \in Reqs : pc[r] = "idle"

\* a track in the store whose last update, if it has the time of one, is at
\* least TTL_DEAD_SEC before the last instant of the clock
Overdue(tid) ==
  /\ tid \in DOMAIN tracks
  /\ Get(tracks[tid], "last_update_ts", 0) <= 5

\* C36: with the aging loop, the clock and the broadcasts scheduled fairly,
\* a track that is in the store when the last request has been served, the
\* server not being paused, is eventually removed from the store.
C36_UntouchedTrackEventuallyRemoved ==
  \A tid \in {"t1", "t2"} :
    (Quiet /\ ~paused /\ Overdue(tid)) ~> (tid \notin DOMAIN tracks)

\* C37: a task never takes STATE_LOCK while it holds the hub lock, and each
\* lock that is held is eventually released.
C37_LockOrderAndRelease ==
  /\ [][\A t \in Tasks : (state_lock # t /\ state_lock' = t) => hub_lock # t]_vars
  /\ (state_lock # FREE) ~> (state_lock = FREE)
  /\ (hub_lock # FREE) ~> (hub_lock = FREE)

\* a request holds both locks while the aging loop waits for the hub lock
\* and a websocket is registered
C37_Witness ==
  /\ state_lock = "r1"
  /\ hub_lock = "r1"
  /\ pc[AGING] = "wait_hub"
  /\ cpc["c1"] = "registered"

\* C38: whenever the server is not paused and no operation holds
\* STATE_LOCK, the pause buffer is empty.
C38_BufferEmptyUnlessPaused ==
  (~paused /\ state_lock = FREE) => buffer = <<>>

\* a resume has just left its critical section with the events buffered
\* during the pause in its local: not paused, lock free, buffer empty
C38_Witness ==
  /\ ~paused
  /\ state_lock = FREE
  /\ buffer = <<>>
  /\ \E r \in Reqs : pc[r] = "relock" /\ op[r] = "resume" /\ buffered[r] # <<>>

\* C39: a paused=true request served while paused, and a paused=false
\* request served while not paused, leave the paused flag, the pause clock,
\* the pause buffer, agents, tracks, threats and the event tail as they are,
\* broadcast nothing and queue nothing for broadcast; so does the second
\* critical section of a paused=false request.
C39_RedundantPauseChangesNothing ==
  [][\A r \in Reqs :
       (\/ \E p \in BOOLEAN : PauseNoop(r, p)
        \/ PauseRelock(r))
       => /\ UNCHANGED <<paused, pause_started_ts, pause_accum_sec, buffer>>
          /\ UNCHANGED <<agents, tracks, track_keys, threats, events_tail>>
          /\ UNCHANGED <<sent, rx, todo, commits>>]_vars

\* a pause, an event buffered during it, then a second paused=true request:
\* still paused, the event still buffered, one cop.control broadcast
C39_Witness ==
  /\ paused
  /\ toggles = 2
  /\ ops = 1
  /\ Len(buffer) = 1
  /\ state_lock = FREE
  /\ \A r \in Reqs : pc[r] = "idle"
  /\ Len(SelectSeq(sent, LAMBDA m : m.event_type = "cop.control")) = 1

\* C40: every track the fusion agent holds has a RADAR hit, and every
\* track.update it has printed carries status CONFIRMED.
C40_NoTentativeUpdate ==
  /\ \A i \in DOMAIN fuser_tracks : "RADAR" \in Kinds(fuser_tracks[i])
  /\ \A k \in Reports : fuser_out[k].payload.status = "CONFIRMED"

\* two tracks seen once by radar, one of them then attached by an RF event:
\* its first report is CONFIRMED, the other track has no report
C40_Witness ==
  /\ Len(fuser_tracks) = 2
  /\ \A i \in DOMAIN fuser_tracks : fuser_tracks[i].supporting_sensors[1].n = 1
  /\ RfCount(fuser_tracks[1]) = 0
  /\ RfCount(fuser_tracks[2]) = 1
  /\ Cardinality(Reports) = 1
  /\ \A k \in Reports :
       /\ fuser_out[k].payload.status = "CONFIRMED"
       /\ fuser_out[k].payload.global_track_id = fuser_tracks[2].track_id

====
